---- MODULE Spec2Model ----
(***************************************************************************)
(* ScannerPipeline of the PDF scanner app                                  *)
(* (src/app/infra/imaging/scanner_pipeline.py) with the stages it calls    *)
(* (warp.py, filters.py, exif_sanitize.py).                                *)
(*                                                                         *)
(* Time is the wall clock time.time() in whole milliseconds.  Threads      *)
(* interleave at the granularity of one shared read or write, one          *)
(* time.time() read and one stage call.  None is the empty tuple <<>> and  *)
(* a present optional value x is <<x>>.                                    *)
(*                                                                         *)
(* Spec        calls of process_capture and process_capture_async from     *)
(*             two threads, their workers and the clock.                   *)
(* FairSpec    the process_capture_async calls alone, with the threads     *)
(*             inside the pipeline scheduled fairly.                       *)
(* PreviewSpec detect_document_preview calls made one after another, their *)
(*             detect() threads, one process_capture_async call.           *)
(* StageSpec   one process_capture call over every input and every stage   *)
(*             outcome.                                                    *)
(* FileSpec    the cache directory: one call, create_thumbnail and         *)
(*             cleanup_temp_files.                                         *)
(* EntrySpec   every entry point of the pipeline called once, with what    *)
(*             it calls failing.                                           *)
(* QuadSpec    QuadDetector (quad_detect.py): detect, detect_from_bytes    *)
(*             and _order_points over every list of four points.           *)
(* RotateSpec  rotate_image calls made one after another on one image.     *)
(* SizeSpec    _calculate_output_size over quads of non-integer sides.     *)
(* DeskewSpec  deskew over the lines found in the image and the write.     *)
(* FilterSpec  apply_filter called directly, beside one process_capture.   *)
(* SelectSpec  the contour loop of _process_opencv over lists of contours. *)
(* FrameSpec   the downscale of a frame and the rescaling of a corner.     *)
(* PillowSpec  _process_pillow and _find_content_bbox over edge images.    *)
(* SessionSpec ScanSession (domain/models.py): add, remove, reorder.       *)
(* AdsSpec     AdsManager.show_interstitial (domain/usecases.py) with      *)
(*             AppState and the AdMob bridge's close callback.             *)
(*                                                                         *)
(* Not modelled: progress_callback (no caller passes one),                 *)
(* processing_time_ms, a Thread.start() that fails, a wall clock that is   *)
(* set back, rotations that are not a multiple of 90 degrees; the contour  *)
(* of a frame is detected on frames no wider than DOWNSCALE_WIDTH, the     *)
(* downscale of wider frames is modelled on its own.                       *)
(***************************************************************************)
EXTENDS Naturals, Integers, Sequences, FiniteSets

VARIABLES
    now,                 \* time.time(), in ms
    ticks,               \* clock advances made so far
    use_opencv,          \* OPENCV_AVAILABLE of the build
    _is_processing,      \* ScannerPipeline._is_processing
    _last_preview_time,  \* ScannerPipeline._last_preview_time, in ms
    calls,               \* every process_capture / process_capture_async call made
    written,             \* files written into cache_path: <<path, call, stage>>
    clock_events,        \* Clock.schedule_once(...) calls, in the order made
    frames,              \* detect_document_preview calls: [t, ret]
    detecting,           \* preview frames whose detect() thread is running
    files,               \* os.listdir(cache_path): the files in the cache directory
    cleanups,            \* cleanup_temp_files calls: [keep_paths, listed, removed]
    returns,             \* how calls of the other entry points ended
    contour,             \* the four points approxPolyDP gave for the image
    ordered,             \* contour, _order_points(contour), _order_points of that, ...
    detection,           \* the QuadResult of detect / detect_from_bytes, if called
    image_size,          \* (width, height) of the image file being rotated
    rotated,             \* rotate_image calls made on it, in order
    sized,               \* _calculate_output_size calls: [quad_points, size]
    deskewed,            \* deskew calls: what the image showed and what came back
    filtered,            \* apply_filter calls made by the caller itself
    selection,           \* runs of the contour loop: [contours, best_quad, result]
    downscaled,          \* frames processed: the sizes, a corner found, the corner returned
    pillow,              \* _process_pillow calls: the edge image and the QuadResult
    session,             \* a ScanSession: pages, current_page_index; the last call made
    ads                  \* AdsManager: app_state, the AdMob bridge, the clock in seconds

\* The state outside process_capture, process_capture_async and the preview.
\* The state of the operations that are checked one at a time.
ext == <<sized, deskewed, filtered, selection, downscaled, pillow, session, ads>>

aux == <<cleanups, returns, contour, ordered, detection, image_size, rotated, ext>>

vars == <<now, ticks, use_opencv, _is_processing, _last_preview_time, calls,
          written, clock_events, frames, detecting, files, aux>>

(* ------------------------------ bounds -------------------------------- *)

MaxCalls == 2
MaxFrames == 3
MaxTicks == 2
MaxCleanups == 1
MaxThumbs == 1
GridMax == 2
MaxOrder == 3
MaxDim == 3
MaxRotations == 2
MaxLines == 2
MaxContours == 2
MaxPages == 3
MaxSessionCalls == 4
MaxRequests == 3
MaxAdsTicks == 3
AdsStartTime == 100
StartTime == 1000

TickSteps == {1, 199}

\* Threads that call into the pipeline.
Threads == {"ui", "bg"}

(* ----------------------------- constants ------------------------------ *)

\* PREVIEW_FRAME_INTERVAL = 0.2 s
PREVIEW_FRAME_INTERVAL == 200

\* threshold: float = 50 of QuadDetector.is_low_light
LowLightThreshold == 50

\* DOWNSCALE_WIDTH = 960
DOWNSCALE_WIDTH == 960

\* AppState.MIN_INTERSTITIAL_INTERVAL_SECONDS and MAX_INTERSTITIALS_PER_DAY
MIN_INTERSTITIAL_INTERVAL_SECONDS == 30
MAX_INTERSTITIALS_PER_DAY == 20

\* MIN_AREA_RATIO = 0.1 and MAX_AREA_RATIO = 0.95, in hundredths
MIN_AREA_RATIO == 10
MAX_AREA_RATIO == 95

FilterType == {"original", "grayscale", "black_white", "enhanced"}

None == <<>>
Some(x) == <<x>>

\* A function that ends by returning v, and one that an exception leaves.
Return(v) == [raised |-> FALSE, value |-> v]
Raise == [raised |-> TRUE, value |-> None]

\* Python truthiness of Optional[List]: None and [] are falsy.
Truthy(opt) == opt # None /\ Len(opt[1]) > 0

Quad4 == <<<<0, 0>>, <<200, 0>>, <<200, 300>>, <<0, 300>>>>
QuadInputs == {None, Some(<<>>), Some(Quad4)}
Rotations == {0, 90, 270, 360}

\* The caller's captured image.
Capture == [prefix |-> "capture", ts |-> 0]

\* os.path.join(self.cache_path, f"{prefix}_{timestamp}.jpg")
CachePath(prefix, timestamp) == [prefix |-> prefix, ts |-> timestamp]

(* ------------------------------ stages -------------------------------- *)

Stages == {"warp", "rotate", "deskew", "filter", "sanitize"}

\* The outcome of one stage call, chosen by the environment (the image, the
\* disk): "ok" the stage wrote its output file; "raise" an exception was
\* raised inside the stage; "noop" the stage decided to change nothing;
\* "lost" cv2.imwrite returned False without raising and its result is ignored.
CvWrite(opencv) == IF opencv THEN {"ok", "raise", "lost"} ELSE {"ok", "raise"}

\* What a stage call did: the path it read, the path it returned, whether it
\* wrote its output file, whether an exception left it.
StageResult(read, path, wrote, raised) ==
    [read |-> read, path |-> path, wrote |-> wrote, raised |-> raised]

WarpOutcomes(opencv) == CvWrite(opencv)

\* PerspectiveWarper.warp: the except clause returns image_path.
warp(image_path, output_path, outcome) ==
    CASE outcome = "ok"   -> StageResult(image_path, output_path, TRUE, FALSE)
      [] outcome = "lost" -> StageResult(image_path, output_path, FALSE, FALSE)
      [] OTHER            -> StageResult(image_path, image_path, FALSE, FALSE)

RotateOutcomes(degrees) == IF degrees % 360 = 0 THEN {"noop"} ELSE {"ok", "raise"}

\* PerspectiveWarper.rotate_image (Pillow only).
rotate_image(image_path, degrees, output_path, outcome) ==
    IF degrees % 360 = 0 THEN StageResult(image_path, image_path, FALSE, FALSE)
    ELSE IF outcome = "ok" THEN StageResult(image_path, output_path, TRUE, FALSE)
    ELSE StageResult(image_path, image_path, FALSE, FALSE)

\* Without OpenCV deskew returns image_path; with it, an unreadable image, no
\* line, no small angle or a median angle outside the range return image_path.
DeskewOutcomes(opencv) == IF opencv THEN {"ok", "noop", "raise", "lost"} ELSE {"noop"}

deskew(image_path, output_path, outcome) ==
    CASE outcome = "ok"   -> StageResult(image_path, output_path, TRUE, FALSE)
      [] outcome = "lost" -> StageResult(image_path, output_path, FALSE, FALSE)
      [] OTHER            -> StageResult(image_path, image_path, FALSE, FALSE)

\* Grayscale is Pillow only; black_white and enhanced use cv2.imwrite when
\* OpenCV read the image and Pillow otherwise.
FilterOutcomes(filter_type, opencv) ==
    CASE filter_type = "original"  -> {"noop"}
      [] filter_type = "grayscale" -> {"ok", "raise"}
      [] OTHER                     -> CvWrite(opencv)

\* apply_filter with Original saved as a copy of the image.
apply_filterOriginalCopies(image_path, filter_type, output_path, outcome) ==
    CASE filter_type = "original" \/ outcome = "ok" ->
              StageResult(image_path, output_path, TRUE, FALSE)
      [] outcome = "lost" -> StageResult(image_path, output_path, FALSE, FALSE)
      [] OTHER            -> StageResult(image_path, image_path, FALSE, FALSE)

apply_filter(image_path, filter_type, output_path, outcome) ==
    IF filter_type = "original" THEN StageResult(image_path, image_path, FALSE, FALSE)
    ELSE CASE outcome = "ok"   -> StageResult(image_path, output_path, TRUE, FALSE)
           [] outcome = "lost" -> StageResult(image_path, output_path, FALSE, FALSE)
           [] OTHER            -> StageResult(image_path, image_path, FALSE, FALSE)

SanitizeOutcomes == {"ok", "raise"}

\* sanitize_image: the except clause returns image_path.
sanitize_image(image_path, output_path, outcome) ==
    IF outcome = "ok" THEN StageResult(image_path, output_path, TRUE, FALSE)
    ELSE StageResult(image_path, image_path, FALSE, FALSE)

(* --------------------------- process_capture -------------------------- *)

StageOrder == <<"warp", "rotate", "deskew", "filter", "sanitize">>

StageIndex(s) == CHOOSE i \in 1..Len(StageOrder) : StageOrder[i] = s

\* StageCond with deskew guarded by the rotation instead of the quad.
StageCondDeskewOnRotation(s, inp) ==
    CASE s = "warp"     -> Truthy(inp.quad_points)
      [] s = "rotate"   -> inp.rotation # 0
      [] s = "deskew"   -> inp.rotation # 0
      [] s = "filter"   -> inp.filter_type # "original"
      [] s = "sanitize" -> TRUE

\* The condition guarding each step of process_capture.
StageCond(s, inp) ==
    CASE s = "warp"     -> Truthy(inp.quad_points)
      [] s = "rotate"   -> inp.rotation # 0
      [] s = "deskew"   -> Truthy(inp.quad_points)
      [] s = "filter"   -> inp.filter_type # "original"
      [] s = "sanitize" -> TRUE

\* The file name prefix each step gives its output.
Prefix(s) ==
    CASE s = "warp"     -> "warped"
      [] s = "rotate"   -> "rotated"
      [] s = "deskew"   -> "deskewed"
      [] s = "filter"   -> "filtered"
      [] s = "sanitize" -> "page"

StageOutcomes(s, inp, opencv) ==
    CASE s = "warp"     -> WarpOutcomes(opencv)
      [] s = "rotate"   -> RotateOutcomes(inp.rotation)
      [] s = "deskew"   -> DeskewOutcomes(opencv)
      [] s = "filter"   -> FilterOutcomes(inp.filter_type, opencv)
      [] s = "sanitize" -> SanitizeOutcomes

\* StageCall with the filter step reading image_path instead of current_path.
StageCallFilterFromSource(s, current_path, inp, output_path, outcome) ==
    CASE s = "warp"     -> warp(current_path, output_path, outcome)
      [] s = "rotate"   -> rotate_image(current_path, inp.rotation, output_path, outcome)
      [] s = "deskew"   -> deskew(current_path, output_path, outcome)
      [] s = "filter"   -> apply_filter(inp.image_path, inp.filter_type, output_path, outcome)
      [] s = "sanitize" -> sanitize_image(current_path, output_path, outcome)

\* The call each step makes; every step passes current_path.
StageCall(s, current_path, inp, output_path, outcome) ==
    CASE s = "warp"     -> warp(current_path, output_path, outcome)
      [] s = "rotate"   -> rotate_image(current_path, inp.rotation, output_path, outcome)
      [] s = "deskew"   -> deskew(current_path, output_path, outcome)
      [] s = "filter"   -> apply_filter(current_path, inp.filter_type, output_path, outcome)
      [] s = "sanitize" -> sanitize_image(current_path, output_path, outcome)

\* AfterReturn with the worker forgetting to clear the busy flag.
AfterReturnKeepsFlag(kind) == IF kind = "async" THEN "schedule" ELSE "done"

\* Where a call goes once process_capture has returned: the synchronous
\* caller has its result, the worker goes on to clear the busy flag.
AfterReturn(kind) == IF kind = "async" THEN "clear" ELSE "done"

\* The steps of process_capture from position i of StageOrder on whose
\* condition holds; the conditions read only the call's own arguments.
StagesFrom(i, inp) ==
    {j \in i..Len(StageOrder) : StageCond(StageOrder[j], inp)}

Least(S) == CHOOSE j \in S : \A m \in S : j <= m

\* The first step that runs.
FirstStage(inp) == StageOrder[Least(StagesFrom(1, inp))]

\* The step that runs after step s, or the return.
StageAfter(s, inp, kind) ==
    IF StagesFrom(StageIndex(s) + 1, inp) = {} THEN AfterReturn(kind)
    ELSE StageOrder[Least(StagesFrom(StageIndex(s) + 1, inp))]

Input(quad_points, filter_type, rotation, completion_callback) ==
    [image_path |-> Capture, quad_points |-> quad_points, filter_type |-> filter_type,
     rotation |-> rotation, completion_callback |-> completion_callback]

\* A call record: result = ProcessingResult(), current_path = image_path.
NewCall(kind, thread, inp, pc, error_message) ==
    [kind |-> kind, thread |-> thread, inp |-> inp, pc |-> pc,
     current_path |-> inp.image_path, success |-> FALSE, output_path |-> None,
     error_message |-> error_message, cleared |-> FALSE, log |-> <<>>]

CallIds == 1..Len(calls)

\* A thread is inside a pipeline entry point.
ThreadBusy(t) ==
    \E k \in CallIds :
        /\ calls[k].thread = t
        /\ \/ calls[k].kind = "async" /\ calls[k].pc = "accepted"
           \/ calls[k].kind = "sync" /\ calls[k].pc \in Stages

\* One step of the try block of process_capture, by the thread running it.
ProcessCaptureStep(k) ==
    /\ k \in CallIds
    /\ calls[k].pc \in Stages
    /\ LET c == calls[k]
           s == c.pc
       IN  \E outcome \in StageOutcomes(s, c.inp, use_opencv) :
              LET timestamp == now
                  output_path == CachePath(Prefix(s), timestamp)
                  r == StageCall(s, c.current_path, c.inp, output_path, outcome)
                  entry == [stage |-> s, input |-> r.read,
                            returned |-> r.path, outcome |-> outcome]
              IN  /\ written' = IF r.wrote THEN written \cup {<<output_path, k, s>>}
                                ELSE written
                  /\ files' = IF r.wrote THEN files \cup {output_path} ELSE files
                  /\ calls' = [calls EXCEPT ![k] =
                        IF r.raised
                        THEN [c EXCEPT !.pc = AfterReturn(c.kind),
                                       !.error_message = "exception",
                                       !.log = Append(c.log, entry)]
                        ELSE [c EXCEPT !.pc = StageAfter(s, c.inp, c.kind),
                                       !.current_path = r.path,
                                       !.success = (s = "sanitize"),
                                       !.output_path =
                                          IF s = "sanitize" THEN Some(r.path) ELSE None,
                                       !.log = Append(c.log, entry)]]
    /\ UNCHANGED aux
    /\ UNCHANGED <<now, ticks, use_opencv, _is_processing, _last_preview_time,
                   clock_events, frames, detecting>>

\* process_capture called directly: it neither reads nor sets _is_processing.
ProcessCapture(t, inp) ==
    /\ Len(calls) < MaxCalls
    /\ ~ThreadBusy(t)
    /\ calls' = Append(calls, NewCall("sync", t, inp, FirstStage(inp), ""))
    /\ UNCHANGED <<files, aux>>
    /\ UNCHANGED <<now, ticks, use_opencv, _is_processing, _last_preview_time,
                   written, clock_events, frames, detecting>>

(* ------------------------ process_capture_async ----------------------- *)

CompletionEvent(k, c) ==
    [kind |-> "completion", id |-> k, success |-> c.success,
     output_path |-> c.output_path, error_message |-> c.error_message]

\* Entry of process_capture_async up to the busy check.
ProcessCaptureAsync(t, inp) ==
    /\ Len(calls) < MaxCalls
    /\ ~ThreadBusy(t)
    /\ IF _is_processing
       THEN LET c == NewCall("async", t, inp, "rejected", "Already processing")
            IN  /\ calls' = Append(calls, c)
                /\ clock_events' =
                      IF inp.completion_callback
                      THEN Append(clock_events, CompletionEvent(Len(calls) + 1, c))
                      ELSE clock_events
       ELSE /\ calls' = Append(calls, NewCall("async", t, inp, "accepted", ""))
            /\ UNCHANGED clock_events
    /\ UNCHANGED <<files, aux>>
    /\ UNCHANGED <<now, ticks, use_opencv, _is_processing, _last_preview_time,
                   written, frames, detecting>>

\* self._is_processing = True; the worker thread is created and started.
AsyncStart(k) ==
    /\ k \in CallIds
    /\ calls[k].pc = "accepted"
    /\ _is_processing' = TRUE
    /\ calls' = [calls EXCEPT ![k].pc = FirstStage(calls[k].inp)]
    /\ UNCHANGED <<files, aux>>
    /\ UNCHANGED <<now, ticks, use_opencv, _last_preview_time, written,
                   clock_events, frames, detecting>>

\* The worker, after process_capture returned: self._is_processing = False.
WorkerClear(k) ==
    /\ k \in CallIds
    /\ calls[k].pc = "clear"
    /\ _is_processing' = FALSE
    /\ calls' = [calls EXCEPT ![k].pc = "schedule", ![k].cleared = TRUE]
    /\ UNCHANGED <<files, aux>>
    /\ UNCHANGED <<now, ticks, use_opencv, _last_preview_time, written,
                   clock_events, frames, detecting>>

\* The worker's last step: the completion callback, if any, is scheduled.
WorkerSchedule(k) ==
    /\ k \in CallIds
    /\ calls[k].pc = "schedule"
    /\ clock_events' =
          IF calls[k].inp.completion_callback
          THEN Append(clock_events, CompletionEvent(k, calls[k]))
          ELSE clock_events
    /\ calls' = [calls EXCEPT ![k].pc = "done"]
    /\ UNCHANGED <<files, aux>>
    /\ UNCHANGED <<now, ticks, use_opencv, _is_processing, _last_preview_time,
                   written, frames, detecting>>

(* ----------------------- detect_document_preview ---------------------- *)

\* current_time - self._last_preview_time < self.PREVIEW_FRAME_INTERVAL
Throttled(current_time, last_preview_time) ==
    current_time - last_preview_time < PREVIEW_FRAME_INTERVAL

\* NextPreviewTime with the assignment forgotten.
NextPreviewTimeStale(current_time, last_preview_time) == last_preview_time

\* self._last_preview_time = current_time
NextPreviewTime(current_time, last_preview_time) == current_time

DetectDocumentPreview ==
    /\ Len(frames) < MaxFrames
    /\ LET current_time == now
           f == Len(frames) + 1
       IN  IF Throttled(current_time, _last_preview_time)
           THEN /\ frames' = Append(frames, [t |-> current_time, ret |-> FALSE])
                /\ UNCHANGED <<_last_preview_time, detecting>>
           ELSE /\ _last_preview_time' = NextPreviewTime(current_time, _last_preview_time)
                /\ detecting' = detecting \cup {f}
                /\ frames' = Append(frames, [t |-> current_time, ret |-> TRUE])
    /\ UNCHANGED <<files, aux>>
    /\ UNCHANGED <<now, ticks, use_opencv, _is_processing, calls, written, clock_events>>

\* The detect() thread: detect_from_bytes, then the callback is scheduled.
DetectThread(f) ==
    /\ f \in detecting
    /\ detecting' = detecting \ {f}
    /\ clock_events' = Append(clock_events,
          [kind |-> "preview", id |-> f, success |-> TRUE,
           output_path |-> None, error_message |-> ""])
    /\ UNCHANGED <<files, aux>>
    /\ UNCHANGED <<now, ticks, use_opencv, _is_processing, _last_preview_time,
                   calls, written, frames>>

(* ---------------------- the cache directory -------------------------- *)

\* The intermediate-file prefixes listed in cleanup_temp_files.
TempPrefixes == {"warped", "rotated", "deskewed", "filtered", "sanitized"}

\* f"thumb_{base}.jpg" in cache_path, base being the name of the image
\* without its extension.
ThumbPath(image_path) ==
    [prefix |-> "thumb", ts |-> image_path.ts, base |-> image_path.prefix]

\* A file name as the words that an underscore follows: warped_1000.jpg is
\* <<"warped">>, thumb_warped_1000.jpg is <<"thumb", "warped">>.
FileName(filepath) ==
    IF "base" \in DOMAIN filepath THEN <<filepath.prefix, filepath.base>>
    ELSE <<filepath.prefix>>

\* HasTempPrefix matching every file.
HasTempPrefixAlways(filename) == TRUE

\* any(prefix in filename for prefix in [...]): a substring test.
HasTempPrefix(filename) ==
    \E i \in 1..Len(filename) : filename[i] \in TempPrefixes

\* keep_set with keep_paths ignored.
KeepSetEmpty(keep_paths) == {}

\* keep_set = set(keep_paths) if keep_paths else set()
KeepSet(keep_paths) == IF keep_paths = None THEN {} ELSE keep_paths[1]

\* The files cleanup_temp_files calls os.remove on.
ToRemove(listed, keep_paths) ==
    {filepath \in listed :
        /\ filepath \notin KeepSet(keep_paths)
        /\ HasTempPrefix(FileName(filepath))}

\* cleanup_temp_files(keep_paths), called by the UI thread between its other
\* calls.  os.listdir may raise (nothing is listed) and each os.remove may
\* raise (that file stays); both are swallowed.
CleanupTempFiles(keep_paths) ==
    /\ Len(cleanups) < MaxCleanups
    /\ ~ThreadBusy("ui")
    /\ \E listed \in {files, {}} :
       \E removed \in SUBSET ToRemove(listed, keep_paths) :
          /\ files' = files \ removed
          /\ cleanups' = Append(cleanups,
                [keep_paths |-> keep_paths, listed |-> listed, removed |-> removed])
    /\ returns' = returns \cup
          {[entry |-> "cleanup_temp_files", outcome |-> "ok", result |-> Return(None)]}
    /\ UNCHANGED <<now, ticks, use_opencv, _is_processing, _last_preview_time,
                   calls, written, clock_events, frames, detecting>>
    /\ UNCHANGED <<contour, ordered, detection, image_size, rotated>>
    /\ UNCHANGED ext

\* create_thumbnail(image_path): saves thumb_<base>.jpg unless Pillow raises.
CreateThumbnail(image_path) ==
    /\ ~ThreadBusy("ui")
    /\ image_path \in files
    /\ image_path.prefix # "thumb"
    /\ Cardinality({f \in files : f.prefix = "thumb"}) < MaxThumbs
    /\ \E outcome \in {"ok", "raise"} :
          files' = IF outcome = "ok" THEN files \cup {ThumbPath(image_path)} ELSE files
    /\ UNCHANGED <<now, ticks, use_opencv, _is_processing, _last_preview_time,
                   calls, written, clock_events, frames, detecting>>
    /\ UNCHANGED aux

(* ------------------------- document detection ------------------------- *)

\* Images are no wider than DOWNSCALE_WIDTH, so scale = 1.0 and the detector
\* works on the frame itself.  A frame is GridMax + 1 pixels wide and high; the
\* environment gives the one contour of at least four-point shape that
\* findContours and approxPolyDP found in it.
Coords == 0..GridMax

Points == Coords \X Coords

frame_size == <<GridMax + 1, GridMax + 1>>

\* confidence, as the fraction num / den.
Fraction(num, den) == [num |-> num, den |-> den]

\* QuadResult(detected, points, confidence, frame_size)
QuadResult(detected, points, confidence, size) ==
    [detected |-> detected, points |-> points, confidence |-> confidence,
     frame_size |-> size]

\* QuadResult(detected=False): the dataclass defaults.
NotDetected == QuadResult(FALSE, None, Fraction(0, 1), <<0, 0>>)

\* np.argmin / np.argmax: the first index of the least / greatest value.
argmin(f) ==
    CHOOSE i \in DOMAIN f :
        /\ \A j \in DOMAIN f : f[i] <= f[j]
        /\ \A j \in DOMAIN f : j < i => f[j] > f[i]

argmax(f) ==
    CHOOSE i \in DOMAIN f :
        /\ \A j \in DOMAIN f : f[i] >= f[j]
        /\ \A j \in DOMAIN f : j < i => f[j] < f[i]

\* _order_points: top-left and bottom-right by x + y, top-right and
\* bottom-left by y - x.
_order_points(points) ==
    LET s == [i \in DOMAIN points |-> points[i][1] + points[i][2]]
        d == [i \in DOMAIN points |-> points[i][2] - points[i][1]]
        tl_idx == argmin(s)
        br_idx == argmax(s)
        tr_idx == argmin(d)
        bl_idx == argmax(d)
    IN  <<points[tl_idx], points[tr_idx], points[br_idx], points[bl_idx]>>

\* The cross product of the edges meeting at point i + 1 of a closed polygon.
Cross(poly, i) ==
    LET n == Len(poly)
        a == poly[i]
        b == poly[(i % n) + 1]
        c == poly[((i + 1) % n) + 1]
    IN  (b[1] - a[1]) * (c[2] - b[2]) - (b[2] - a[2]) * (c[1] - b[1])

\* cv2.isContourConvex: every turn is in the same direction and none is flat.
isContourConvex(approx) ==
    \/ \A i \in 1..Len(approx) : Cross(approx, i) > 0
    \/ \A i \in 1..Len(approx) : Cross(approx, i) < 0

\* Twice cv2.contourArea of the polygon.
contourArea2(poly) ==
    LET n == Len(poly)
        term(i) == poly[i][1] * poly[(i % n) + 1][2] - poly[(i % n) + 1][1] * poly[i][2]
        sum == term(1) + term(2) + term(3) + term(4)
    IN  IF sum < 0 THEN 0 - sum ELSE sum

\* The test of the contour loop: area within the ratios, four points, convex.
IsCandidate(approx, size) ==
    LET frame_area == size[1] * size[2]
    IN  /\ ~(contourArea2(approx) * 100 < 2 * frame_area * MIN_AREA_RATIO)
        /\ ~(contourArea2(approx) * 100 > 2 * frame_area * MAX_AREA_RATIO)
        /\ Len(approx) = 4
        /\ isContourConvex(approx)

\* What happens inside a detection: the image is read and processed, it
\* cannot be read, or a call inside the processing raises.
DetectOutcomes == {"read", "unreadable", "error"}

_process_opencv(approx, size, outcome) ==
    IF outcome = "error" THEN Raise
    ELSE IF IsCandidate(approx, size)
    THEN Return(QuadResult(TRUE, Some(_order_points(approx)),
                           Fraction(contourArea2(approx), 2 * size[1] * size[2]), size))
    ELSE Return(QuadResult(FALSE, None, Fraction(0, 1), size))

\* cv2.imread returns None for a file it cannot read.
_detect_opencv(approx, size, outcome) ==
    IF outcome = "unreadable" THEN Return(NotDetected)
    ELSE _process_opencv(approx, size, outcome)

\* _find_content_bbox on the grid frame, whose unit is many pixels (more than
\* the margin, and enough edge pixels): the box around the content, None when
\* it is narrower than a fifth of the frame.
_find_content_bbox_grid(approx, size) ==
    LET min_x == CHOOSE x \in Coords :
                    (\E i \in 1..4 : approx[i][1] = x) /\ \A i \in 1..4 : x <= approx[i][1]
        max_x == CHOOSE x \in Coords :
                    (\E i \in 1..4 : approx[i][1] = x) /\ \A i \in 1..4 : x >= approx[i][1]
        min_y == CHOOSE y \in Coords :
                    (\E i \in 1..4 : approx[i][2] = y) /\ \A i \in 1..4 : y <= approx[i][2]
        max_y == CHOOSE y \in Coords :
                    (\E i \in 1..4 : approx[i][2] = y) /\ \A i \in 1..4 : y >= approx[i][2]
    IN  IF (max_x - min_x) * 5 < size[1] \/ (max_y - min_y) * 5 < size[2] THEN None
        ELSE Some(<<min_x, min_y, max_x, max_y>>)

\* _process_pillow: the corners of the content box, confidence 0.5.
_process_pillow(approx, size, outcome) ==
    IF outcome = "error" THEN Raise
    ELSE LET bbox == _find_content_bbox_grid(approx, size)
         IN  IF bbox # None
             THEN LET x1 == bbox[1][1]
                      y1 == bbox[1][2]
                      x2 == bbox[1][3]
                      y2 == bbox[1][4]
                  IN  Return(QuadResult(TRUE,
                         Some(<<<<x1, y1>>, <<x2, y1>>, <<x2, y2>>, <<x1, y2>>>>),
                         Fraction(1, 2), size))
             ELSE Return(QuadResult(FALSE, None, Fraction(0, 1), size))

\* _detect_pillow and _detect_pillow_bytes: Image.open raises for what it
\* cannot read; the except clause returns QuadResult(detected=False).
_detect_pillow(approx, size, outcome) ==
    LET r == IF outcome = "unreadable" THEN Raise
             ELSE _process_pillow(approx, size, outcome)
    IN  IF r.raised THEN Return(NotDetected) ELSE r

\* detect without its except clause.
detectNoExcept(approx, size, opencv, outcome) ==
    IF opencv THEN _detect_opencv(approx, size, outcome)
    ELSE _detect_pillow(approx, size, outcome)

\* QuadDetector.detect(image_path)
detect(approx, size, opencv, outcome) ==
    LET r == IF opencv THEN _detect_opencv(approx, size, outcome)
             ELSE _detect_pillow(approx, size, outcome)
    IN  IF r.raised THEN Return(NotDetected) ELSE r

\* The buffer lengths the preview passes: RGBA, RGB, and one that is neither.
BufferLengths(size) ==
    {size[1] * size[2] * 4, size[1] * size[2] * 3, size[1] * size[2] * 3 + 1}

\* _detect_opencv_bytes: a length that is neither width * height * 4 nor
\* width * height * 3, or a reshape that raises, gives detected=False.
_detect_opencv_bytes(approx, length, width, height, outcome) ==
    IF length = width * height * 4 \/ length = width * height * 3
    THEN IF outcome = "unreadable" THEN Return(NotDetected)
         ELSE _process_opencv(approx, <<width, height>>, outcome)
    ELSE Return(NotDetected)

\* _detect_pillow_bytes: Image.open(BytesIO(image_bytes)) raises for a buffer
\* of raw pixels, whatever its length; the except clause returns
\* QuadResult(detected=False).
_detect_pillow_bytes(length, width, height, outcome) == Return(NotDetected)

\* detect_from_bytes without its except clause.
detect_from_bytesNoExcept(approx, length, width, height, opencv, outcome) ==
    IF opencv THEN _detect_opencv_bytes(approx, length, width, height, outcome)
    ELSE _detect_pillow_bytes(length, width, height, outcome)

\* QuadDetector.detect_from_bytes(image_bytes, width, height), the buffer
\* holding raw pixels.
detect_from_bytes(approx, length, width, height, opencv, outcome) ==
    LET r == IF opencv THEN _detect_opencv_bytes(approx, length, width, height, outcome)
             ELSE _detect_pillow_bytes(length, width, height, outcome)
    IN  IF r.raised THEN Return(NotDetected) ELSE r

\* A call of detect on the image.
Detect ==
    /\ detection = None
    /\ Len(ordered) <= 1
    /\ \E outcome \in DetectOutcomes :
          detection' = Some([entry |-> "detect", outcome |-> outcome, length |-> 0,
                             result |-> detect(contour, frame_size, use_opencv, outcome)])
    /\ UNCHANGED <<now, ticks, use_opencv, _is_processing, _last_preview_time,
                   calls, written, clock_events, frames, detecting, files>>
    /\ UNCHANGED <<cleanups, returns, contour, ordered, image_size, rotated>>
    /\ UNCHANGED ext

\* A call of detect_from_bytes on the frame's buffer.
DetectFromBytes ==
    /\ detection = None
    /\ Len(ordered) <= 1
    /\ \E outcome \in DetectOutcomes, length \in BufferLengths(frame_size) :
          detection' = Some([entry |-> "detect_from_bytes", outcome |-> outcome,
                             length |-> length,
                             result |-> detect_from_bytes(contour, length, frame_size[1],
                                           frame_size[2], use_opencv, outcome)])
    /\ UNCHANGED <<now, ticks, use_opencv, _is_processing, _last_preview_time,
                   calls, written, clock_events, frames, detecting, files>>
    /\ UNCHANGED <<cleanups, returns, contour, ordered, image_size, rotated>>
    /\ UNCHANGED ext

\* _order_points applied to its own result.
OrderPoints ==
    /\ detection = None
    /\ Len(ordered) < MaxOrder
    /\ ordered' = Append(ordered, _order_points(ordered[Len(ordered)]))
    /\ UNCHANGED <<now, ticks, use_opencv, _is_processing, _last_preview_time,
                   calls, written, clock_events, frames, detecting, files>>
    /\ UNCHANGED <<cleanups, returns, contour, detection, image_size, rotated>>
    /\ UNCHANGED ext

(* ----------------------- the other entry points ----------------------- *)

\* detect_document(image_path): self.detector.detect(image_path)
detect_document(approx, size, opencv, outcome) == detect(approx, size, opencv, outcome)

BrightnessOutcomes == {"dark", "bright", "raise"}

\* estimate_brightness: the mean of the centre of the image, 128 when
\* anything raises.
estimate_brightness(outcome) ==
    CASE outcome = "dark"   -> 10
      [] outcome = "bright" -> 200
      [] OTHER              -> 128

\* is_low_light(image_path): brightness < threshold, threshold = 50
is_low_light(outcome) == Return(estimate_brightness(outcome) < LowLightThreshold)

DetectDocument ==
    /\ ~\E r \in returns : r.entry = "detect_document"
    /\ \E outcome \in DetectOutcomes :
          returns' = returns \cup
             {[entry |-> "detect_document", outcome |-> outcome,
               result |-> detect_document(contour, frame_size, use_opencv, outcome)]}
    /\ UNCHANGED <<now, ticks, use_opencv, _is_processing, _last_preview_time,
                   calls, written, clock_events, frames, detecting, files>>
    /\ UNCHANGED <<cleanups, contour, ordered, detection, image_size, rotated>>
    /\ UNCHANGED ext

IsLowLight ==
    /\ ~\E r \in returns : r.entry = "is_low_light"
    /\ \E outcome \in BrightnessOutcomes :
          returns' = returns \cup
             {[entry |-> "is_low_light", outcome |-> outcome,
               result |-> is_low_light(outcome)]}
    /\ UNCHANGED <<now, ticks, use_opencv, _is_processing, _last_preview_time,
                   calls, written, clock_events, frames, detecting, files>>
    /\ UNCHANGED <<cleanups, contour, ordered, detection, image_size, rotated>>
    /\ UNCHANGED ext

(* ------------------------------ rotation ------------------------------ *)

\* The rotations passed to rotate_image: the quarter turns, and degrees that
\* are congruent to them modulo 360.
Degrees == {0, 90, 180, 270, 360, 450, 0 - 90}

\* RotatedSize with the image keeping its size.
RotatedSizeNoExpand(size, degrees) == size

\* img.rotate(degrees, expand=True) after degrees = degrees % 360: a quarter
\* turn swaps width and height, a half turn keeps them.
RotatedSize(size, degrees) ==
    IF degrees % 360 \in {90, 270} THEN <<size[2], size[1]>> ELSE size

\* The image the next rotate_image call is given: the caller's capture, then
\* what the call before returned.
RotateInput == IF rotated = <<>> THEN Capture ELSE rotated[Len(rotated)].returned

\* rotate_image(image_path, degrees, output_path) on the image the call
\* before returned.
RotateImage ==
    /\ Len(rotated) < MaxRotations
    /\ \E degrees \in Degrees :
       \E outcome \in RotateOutcomes(degrees) :
          \* the calls are a millisecond apart
          LET output_path == CachePath("rotated", now + Len(rotated))
              r == rotate_image(RotateInput, degrees, output_path, outcome)
              size == IF r.wrote THEN RotatedSize(image_size, degrees) ELSE image_size
          IN  /\ image_size' = size
              /\ files' = IF r.wrote THEN files \cup {output_path} ELSE files
              /\ rotated' = Append(rotated,
                    [degrees |-> degrees, outcome |-> outcome, input |-> r.read,
                     returned |-> r.path, wrote |-> r.wrote,
                     input_size |-> image_size, output_size |-> size,
                     listed |-> files'])
    /\ UNCHANGED <<now, ticks, use_opencv, _is_processing, _last_preview_time,
                   calls, written, clock_events, frames, detecting>>
    /\ UNCHANGED <<cleanups, returns, contour, ordered, detection>>
    /\ UNCHANGED ext

(* ------------------------- rectified output size ---------------------- *)

\* The coordinates of the quad corners given to _calculate_output_size.
SizeCoords == {0, 15, 200, 300}
SizePoints == SizeCoords \X SizeCoords

\* A float that is the square root of an integer, as _distance returns.
Sqrt(n) == [sqrt_of |-> n]

\* max(a, b) of two such floats.
FloatMax(a, b) == IF a.sqrt_of >= b.sqrt_of THEN a ELSE b

\* The integer k of lo..(hi - 1) with k * k <= n < (k + 1) * (k + 1), by bisection.
RECURSIVE Root(_, _, _)
Root(n, lo, hi) ==
    IF hi - lo <= 1 THEN lo
    ELSE LET mid == (lo + hi) \div 2
         IN  IF mid <= n \div mid THEN Root(n, mid, hi) ELSE Root(n, lo, mid)

\* int(x) of such a float: truncation.
Truncate(x) == Root(x.sqrt_of, 0, x.sqrt_of + 1)

\* max(a, b) of two integers.
IntMax(a, b) == IF a >= b THEN a ELSE b

\* ((p2[0] - p1[0]) ** 2 + (p2[1] - p1[1]) ** 2) ** 0.5
_distance(p1, p2) ==
    Sqrt((p2[1] - p1[1]) * (p2[1] - p1[1]) + (p2[2] - p1[2]) * (p2[2] - p1[2]))

\* _calculate_output_size without the minimum of 100.
_calculate_output_sizeNoMinimum(quad_points) ==
    LET tl == quad_points[1]
        tr == quad_points[2]
        br == quad_points[3]
        bl == quad_points[4]
    IN  <<Truncate(FloatMax(_distance(tl, tr), _distance(bl, br))),
          Truncate(FloatMax(_distance(tl, bl), _distance(tr, br)))>>

\* PerspectiveWarper._calculate_output_size: <<width, height>>.
_calculate_output_size(quad_points) ==
    LET tl == quad_points[1]
        tr == quad_points[2]
        br == quad_points[3]
        bl == quad_points[4]
        width_top == _distance(tl, tr)
        width_bottom == _distance(bl, br)
        width == Truncate(FloatMax(width_top, width_bottom))
        height_left == _distance(tl, bl)
        height_right == _distance(tr, br)
        height == Truncate(FloatMax(height_left, height_right))
    IN  <<IntMax(width, 100), IntMax(height, 100)>>

\* One call of _calculate_output_size(quad_points), as warp makes it.
CalculateOutputSize ==
    /\ sized = <<>>
    /\ \E quad_points \in [1..4 -> SizePoints] :
          sized' = <<[quad_points |-> quad_points,
                      size |-> _calculate_output_size(quad_points)]>>
    /\ UNCHANGED <<deskewed, filtered, selection, downscaled, pillow, session, ads>>
    /\ UNCHANGED <<now, ticks, use_opencv, _is_processing, _last_preview_time,
                   calls, written, clock_events, frames, detecting, files>>
    /\ UNCHANGED <<cleanups, returns, contour, ordered, detection, image_size, rotated>>

(* ------------------------------- deskew ------------------------------- *)

\* (theta * 180 / np.pi) - 90 of the lines cv2.HoughLines finds at its
\* resolution of one degree, in hundredths of a degree.
LineAngles == {0, 100, 1400, 1500, 1600, 4500, 0 - 1500}

\* lines[:20]: here at most MaxLines lines.
LineLists == UNION {[1..n -> LineAngles] : n \in 0..MaxLines}

\* What the image given to deskew is like: whether cv2.imread reads it, the
\* lines cv2.HoughLines returns (None for no line), how cv2.imwrite ends.
Scenes ==
    [readable : BOOLEAN, lines : {None} \cup {Some(l) : l \in LineLists},
     write : {"ok", "raise", "lost"}]

\* angles: the lines with -45 < angle < 45.
SmallAngles(lines) == SelectSeq(lines, LAMBDA angle : 0 - 4500 < angle /\ angle < 4500)

\* sorted(angles)
Sorted(angles) ==
    CHOOSE s \in [1..Len(angles) -> {angles[i] : i \in 1..Len(angles)}] :
       /\ \A i \in 1..(Len(s) - 1) : s[i] <= s[i + 1]
       /\ \A v \in {angles[i] : i \in 1..Len(angles)} :
             Cardinality({i \in 1..Len(s) : s[i] = v})
                = Cardinality({i \in 1..Len(angles) : angles[i] = v})

\* np.median(angles) of a list that is not empty.
Median(angles) ==
    LET s == Sorted(angles)
        n == Len(s)
    IN  IF n % 2 = 1 THEN s[(n + 1) \div 2] ELSE (s[n \div 2] + s[n \div 2 + 1]) \div 2

Abs(x) == IF x < 0 THEN 0 - x ELSE x

\* abs(median_angle) < 0.5 or abs(median_angle) > 15
OutOfRange(median_angle) == Abs(median_angle) < 50 \/ Abs(median_angle) > 1500

\* PerspectiveWarper._deskew_opencv
_deskew_opencv(image_path, output_path, scene) ==
    IF ~scene.readable THEN Return(StageResult(image_path, image_path, FALSE, FALSE))
    ELSE IF scene.lines = None \/ Len(scene.lines[1]) = 0
    THEN Return(StageResult(image_path, image_path, FALSE, FALSE))
    ELSE LET angles == SmallAngles(scene.lines[1])
         IN  IF Len(angles) = 0
             THEN Return(StageResult(image_path, image_path, FALSE, FALSE))
             ELSE IF OutOfRange(Median(angles))
             THEN Return(StageResult(image_path, image_path, FALSE, FALSE))
             ELSE CASE scene.write = "ok" ->
                          Return(StageResult(image_path, output_path, TRUE, FALSE))
                    [] scene.write = "lost" ->
                          Return(StageResult(image_path, output_path, FALSE, FALSE))
                    [] OTHER -> Raise

\* PerspectiveWarper.deskew on an image that shows the scene.
deskew_scene(opencv, image_path, output_path, scene) ==
    IF opencv
    THEN LET r == _deskew_opencv(image_path, output_path, scene)
         IN  IF r.raised THEN StageResult(image_path, image_path, FALSE, FALSE)
             ELSE r.value
    ELSE StageResult(image_path, image_path, FALSE, FALSE)

\* One call of deskew(image_path, output_path) on the capture.
Deskew ==
    /\ deskewed = <<>>
    /\ \E scene \in Scenes :
          LET output_path == CachePath("deskewed", now)
              r == deskew_scene(use_opencv, Capture, output_path, scene)
          IN  /\ files' = IF r.wrote THEN files \cup {output_path} ELSE files
              /\ deskewed' = <<[image_path |-> Capture, output_path |-> output_path,
                                scene |-> scene, opencv |-> use_opencv,
                                returned |-> r.path, wrote |-> r.wrote,
                                listed |-> files']>>
    /\ UNCHANGED <<now, ticks, use_opencv, _is_processing, _last_preview_time,
                   calls, written, clock_events, frames, detecting>>
    /\ UNCHANGED <<cleanups, returns, contour, ordered, detection, image_size, rotated>>
    /\ UNCHANGED <<sized, filtered, selection, downscaled, pillow, session, ads>>

(* ---------------------------- apply_filter ---------------------------- *)

\* One call of apply_filter(image_path, filter_type, output_path) made by the
\* caller itself on the capture.
ApplyFilter ==
    /\ filtered = <<>>
    /\ \E filter_type \in FilterType :
       \E outcome \in FilterOutcomes(filter_type, use_opencv) :
          LET output_path == CachePath("filtered", 0)
              r == apply_filter(Capture, filter_type, output_path, outcome)
          IN  /\ files' = IF r.wrote THEN files \cup {output_path} ELSE files
              /\ filtered' = <<[image_path |-> Capture, filter_type |-> filter_type,
                                output_path |-> output_path, outcome |-> outcome,
                                returned |-> r.path, wrote |-> r.wrote,
                                listed_before |-> files, listed |-> files']>>
    /\ UNCHANGED <<now, ticks, use_opencv, _is_processing, _last_preview_time,
                   calls, written, clock_events, frames, detecting>>
    /\ UNCHANGED <<cleanups, returns, contour, ordered, detection, image_size, rotated>>
    /\ UNCHANGED <<sized, deskewed, selection, downscaled, pillow, session, ads>>

(* ------------------------- best-quad selection ------------------------ *)

\* cv2.contourArea(contour), in hundredths of the frame area.
ContourAreas == {5, 10, 50, 95, 96}

\* A contour of cv2.findContours: its area, the number of points of its
\* polygon approximation, whether cv2.isContourConvex holds of the approximation.
Contours == [area : ContourAreas, vertices : {3, 4, 5}, convex : BOOLEAN]

ContourLists == UNION {[1..n -> Contours] : n \in 0..MaxContours}

\* The tests of the loop body with the last of equal areas kept.
AcceptsTies(c, best_area) ==
    /\ ~(c.area < MIN_AREA_RATIO \/ c.area > MAX_AREA_RATIO)
    /\ c.vertices = 4
    /\ c.area >= best_area
    /\ c.convex

\* The tests of the loop body that a contour passes to become best_quad.
Accepts(c, best_area) ==
    /\ ~(c.area < MIN_AREA_RATIO \/ c.area > MAX_AREA_RATIO)
    /\ c.vertices = 4
    /\ c.area > best_area
    /\ c.convex

\* The loop over contours from index i on: best_quad (an index, None at
\* first) and best_area when it ends.
RECURSIVE BestQuad(_, _, _, _)
BestQuad(contours, i, best_quad, best_area) ==
    IF i > Len(contours) THEN [best_quad |-> best_quad, best_area |-> best_area]
    ELSE IF Accepts(contours[i], best_area)
    THEN BestQuad(contours, i + 1, Some(i), contours[i].area)
    ELSE BestQuad(contours, i + 1, best_quad, best_area)

\* _process_opencv on a frame with these contours: the loop and the result.
SelectQuad ==
    /\ selection = <<>>
    /\ \E contours \in ContourLists :
          LET best == BestQuad(contours, 1, None, 0)
          IN  selection' = <<[contours |-> contours, best_quad |-> best.best_quad,
                              detected |-> best.best_quad # None,
                              confidence |-> Fraction(best.best_area, 100)]>>
    /\ UNCHANGED <<now, ticks, use_opencv, _is_processing, _last_preview_time,
                   calls, written, clock_events, frames, detecting, files>>
    /\ UNCHANGED <<cleanups, returns, contour, ordered, detection, image_size, rotated>>
    /\ UNCHANGED <<sized, deskewed, filtered, downscaled, pillow, session, ads>>

(* ------------------------------ downscale ----------------------------- *)

\* The widths and heights of the frames given to the detector.  For these
\* widths the float products of the code are the exact ones.
FrameDims == {480, 960, 1080, 1920}

\* Scale with no frame downscaled.
ScaleNever(original_width) == Fraction(1, 1)

\* scale = 1.0; if original_width > DOWNSCALE_WIDTH: scale = DOWNSCALE_WIDTH / original_width
Scale(original_width) ==
    IF original_width > DOWNSCALE_WIDTH THEN Fraction(DOWNSCALE_WIDTH, original_width)
    ELSE Fraction(1, 1)

\* round(v * scale), as cv2.resize(img, None, fx=scale, fy=scale) sizes its output.
ScaleRound(v, scale) == (2 * v * scale.num + scale.den) \div (2 * scale.den)

\* int(v * scale), as _process_pillow sizes its output.
ScaleInt(v, scale) == (v * scale.num) \div scale.den

\* The size of the image that is processed: <<width, height>>.
ProcessedSize(size, opencv) ==
    LET scale == Scale(size[1])
    IN  IF size[1] > DOWNSCALE_WIDTH
        THEN IF opencv THEN <<ScaleRound(size[1], scale), ScaleRound(size[2], scale)>>
             ELSE <<ScaleInt(size[1], scale), ScaleInt(size[2], scale)>>
        ELSE size

\* (int(x / scale), int(y / scale))
ScaleBack(point, scale) ==
    <<(point[1] * scale.den) \div scale.num, (point[2] * scale.den) \div scale.num>>

\* The corners a detection can find in an image of this size.
CornersOf(size) == {0, size[1] \div 2, size[1] - 1} \X {0, size[2] \div 2, size[2] - 1}

\* _process_opencv or _process_pillow on a frame of some size: the downscale,
\* a corner found in the processed image, the corner returned.
ProcessFrame ==
    /\ downscaled = <<>>
    /\ \E size \in FrameDims \X FrameDims :
          LET scale == Scale(size[1])
              processed == ProcessedSize(size, use_opencv)
          IN  \E point \in CornersOf(processed) :
                 downscaled' = <<[frame_size |-> size, processed |-> processed,
                                  found |-> point,
                                  returned |-> ScaleBack(point, scale)]>>
    /\ UNCHANGED <<now, ticks, use_opencv, _is_processing, _last_preview_time,
                   calls, written, clock_events, frames, detecting, files>>
    /\ UNCHANGED <<cleanups, returns, contour, ordered, detection, image_size, rotated>>
    /\ UNCHANGED <<sized, deskewed, filtered, selection, pillow, session, ads>>

(* --------------------------- Pillow detector -------------------------- *)

\* The frames given to the Pillow detector: one processed as it is, one
\* downscaled to 960 x 200.
PillowFrames == {<<200, 200>>, <<1920, 400>>}

\* The first and last column (row) with an edge pixel, in an image this wide (high).
EdgeCoords(n) == {0, 5, 25, 45, 55, n - 6, n - 1}

\* What the pixel loop of _find_content_bbox computes from the edge image:
\* the number of pixels above 128 and the least and greatest x and y among
\* them (width, height, 0, 0 when there is none).
EdgeImages(size) ==
    {[edge_count |-> 0, min_x |-> size[1], min_y |-> size[2], max_x |-> 0, max_y |-> 0]}
    \cup {e \in [edge_count : {99, 100}, min_x : EdgeCoords(size[1]),
                 max_x : EdgeCoords(size[1]), min_y : EdgeCoords(size[2]),
                 max_y : EdgeCoords(size[2])] :
             /\ e.min_x <= e.max_x
             /\ e.min_y <= e.max_y
             /\ (e.max_x - e.min_x + 1) * (e.max_y - e.min_y + 1) >= e.edge_count}

IntMin(a, b) == IF a <= b THEN a ELSE b

\* _find_content_bbox with the size of the box checked before the margin is added.
_find_content_bboxCheckFirst(edges, size) ==
    LET margin == 10
        min_x == IntMax(0, edges.min_x - margin)
        min_y == IntMax(0, edges.min_y - margin)
        max_x == IntMin(size[1] - 1, edges.max_x + margin)
        max_y == IntMin(size[2] - 1, edges.max_y + margin)
        box_width == edges.max_x - edges.min_x
        box_height == edges.max_y - edges.min_y
    IN  IF edges.edge_count < 100 THEN None
        ELSE IF box_width * 5 < size[1] \/ box_height * 5 < size[2] THEN None
        ELSE Some(<<min_x, min_y, max_x, max_y>>)

\* QuadDetector._find_content_bbox on an edge image of this size.
_find_content_bbox(edges, size) ==
    LET margin == 10
        min_x == IntMax(0, edges.min_x - margin)
        min_y == IntMax(0, edges.min_y - margin)
        max_x == IntMin(size[1] - 1, edges.max_x + margin)
        max_y == IntMin(size[2] - 1, edges.max_y + margin)
        box_width == max_x - min_x
        box_height == max_y - min_y
    IN  IF edges.edge_count < 100 THEN None
        ELSE IF box_width * 5 < size[1] \/ box_height * 5 < size[2] THEN None
        ELSE Some(<<min_x, min_y, max_x, max_y>>)

\* _process_pillow on a frame, by a build without OpenCV: the downscale, the
\* edge image, the box and the QuadResult.
ProcessPillow ==
    /\ pillow = <<>>
    /\ ~use_opencv
    /\ \E frame \in PillowFrames :
          LET scale == Scale(frame[1])
              size == ProcessedSize(frame, FALSE)
          IN  \E edges \in EdgeImages(size) :
                 LET bbox == _find_content_bbox(edges, size)
                     result ==
                        IF bbox # None
                        THEN LET x1 == bbox[1][1]
                                 y1 == bbox[1][2]
                                 x2 == bbox[1][3]
                                 y2 == bbox[1][4]
                             IN  QuadResult(TRUE,
                                    Some(<<ScaleBack(<<x1, y1>>, scale),
                                           ScaleBack(<<x2, y1>>, scale),
                                           ScaleBack(<<x2, y2>>, scale),
                                           ScaleBack(<<x1, y2>>, scale)>>),
                                    Fraction(1, 2), frame)
                        ELSE QuadResult(FALSE, None, Fraction(0, 1), frame)
                 IN  pillow' = <<[frame_size |-> frame, size |-> size,
                                  edges |-> edges, result |-> result]>>
    /\ UNCHANGED <<now, ticks, use_opencv, _is_processing, _last_preview_time,
                   calls, written, clock_events, frames, detecting, files>>
    /\ UNCHANGED <<cleanups, returns, contour, ordered, detection, image_size, rotated>>
    /\ UNCHANGED <<sized, deskewed, filtered, selection, downscaled, session, ads>>

(* ----------------------------- ScanSession ---------------------------- *)

\* The indices callers pass: in range, negative and past the end.
SessionIndices == (0 - 1)..MaxPages

\* ScanSession(): no page, current_page_index = 0.  calls counts the calls
\* made and last records the last one with the session before it.
ScanSession ==
    [pages |-> <<>>, current_page_index |-> 0, calls |-> 0, last |-> None]

\* Page(id): order = 0 until the page is added.
Page(id) == [id |-> id, order |-> 0]

\* 0 <= index < len(self.pages)
InRange(index, pages) == 0 <= index /\ index < Len(pages)

\* self.pages.pop(index)
Pop(pages, index) == SubSeq(pages, 1, index) \o SubSeq(pages, index + 2, Len(pages))

\* self.pages.insert(index, page)
Insert(pages, index, page) ==
    SubSeq(pages, 1, index) \o <<page>> \o SubSeq(pages, index + 1, Len(pages))

\* for i, page in enumerate(self.pages): page.order = i
Renumber(pages) == [i \in 1..Len(pages) |-> [pages[i] EXCEPT !.order = i - 1]]

\* The call made and the session it was made on.
LastCall(op, args, in_range) ==
    Some([op |-> op, args |-> args, in_range |-> in_range,
          pages |-> session.pages, current_page_index |-> session.current_page_index])

\* ScanSession.add_page(page) with a new page.
AddPage ==
    /\ session.calls < MaxSessionCalls
    /\ Len(session.pages) < MaxPages
    /\ LET page == [Page(session.calls) EXCEPT !.order = Len(session.pages)]
           pages == Append(session.pages, page)
       IN  session' = [pages |-> pages, current_page_index |-> Len(pages) - 1,
                       calls |-> session.calls + 1,
                       last |-> LastCall("add_page", <<>>, TRUE)]
    /\ UNCHANGED <<now, ticks, use_opencv, _is_processing, _last_preview_time,
                   calls, written, clock_events, frames, detecting, files>>
    /\ UNCHANGED <<cleanups, returns, contour, ordered, detection, image_size, rotated>>
    /\ UNCHANGED <<sized, deskewed, filtered, selection, downscaled, pillow, ads>>

\* ScanSession.remove_page(index)
RemovePage(index) ==
    /\ session.calls < MaxSessionCalls
    /\ session' =
          IF InRange(index, session.pages)
          THEN [session EXCEPT !.pages = Renumber(Pop(session.pages, index)),
                               !.calls = @ + 1,
                               !.last = LastCall("remove_page", <<index>>, TRUE)]
          ELSE [session EXCEPT !.calls = @ + 1,
                               !.last = LastCall("remove_page", <<index>>, FALSE)]
    /\ UNCHANGED <<now, ticks, use_opencv, _is_processing, _last_preview_time,
                   calls, written, clock_events, frames, detecting, files>>
    /\ UNCHANGED <<cleanups, returns, contour, ordered, detection, image_size, rotated>>
    /\ UNCHANGED <<sized, deskewed, filtered, selection, downscaled, pillow, ads>>

\* ScanSession.reorder_pages(from_index, to_index)
ReorderPages(from_index, to_index) ==
    /\ session.calls < MaxSessionCalls
    /\ session' =
          IF InRange(from_index, session.pages) /\ InRange(to_index, session.pages)
          THEN LET page == session.pages[from_index + 1]
                   popped == Pop(session.pages, from_index)
               IN  [session EXCEPT !.pages = Renumber(Insert(popped, to_index, page)),
                                   !.calls = @ + 1,
                                   !.last = LastCall("reorder_pages",
                                                     <<from_index, to_index>>, TRUE)]
          ELSE [session EXCEPT !.calls = @ + 1,
                               !.last = LastCall("reorder_pages",
                                                 <<from_index, to_index>>, FALSE)]
    /\ UNCHANGED <<now, ticks, use_opencv, _is_processing, _last_preview_time,
                   calls, written, clock_events, frames, detecting, files>>
    /\ UNCHANGED <<cleanups, returns, contour, ordered, detection, image_size, rotated>>
    /\ UNCHANGED <<sized, deskewed, filtered, selection, downscaled, pillow, ads>>

(* ----------------------------- AdsManager ----------------------------- *)

\* Seconds in a day: datetime.now().strftime('%Y-%m-%d') of a time in seconds.
Today(time) == time \div 86400

\* AppState(): the dataclass defaults.
AppState ==
    [ads_enabled |-> TRUE, ads_removed_purchased |-> FALSE,
     last_interstitial_time |-> None, interstitial_count_today |-> 0,
     last_count_reset_date |-> None]

\* The app state the repository has saved: none yet, or that of a day on
\* which 19 interstitials were recorded, the last of them at time 0.
SavedStates ==
    {AppState,
     [AppState EXCEPT !.last_interstitial_time = Some(0),
                      !.interstitial_count_today = MAX_INTERSTITIALS_PER_DAY - 1,
                      !.last_count_reset_date = Some(Today(AdsStartTime))]}

\* AdsManager after initialize(): app_state, the platform, the bridge's
\* _interstitial_callback (TRUE when set) and the poll chains that run; and
\* what the properties refer to: the time, the requests made, the interstitials
\* shown and the times at which record_interstitial_shown ran.
AdsManager(app_state, android) ==
    [app_state |-> app_state, android |-> android, _interstitial_callback |-> FALSE,
     polls |-> 0, time |-> AdsStartTime, ticks |-> 0, requests |-> 0,
     shown |-> <<>>, recorded |-> <<>>]

\* The part of AppState.can_show_interstitial that resets the daily count.
ResetDailyCount(app_state, time) ==
    IF ~app_state.ads_enabled \/ app_state.ads_removed_purchased THEN app_state
    ELSE IF app_state.last_count_reset_date # Some(Today(time))
    THEN [app_state EXCEPT !.interstitial_count_today = 0,
                           !.last_count_reset_date = Some(Today(time))]
    ELSE app_state

\* The value AppState.can_show_interstitial returns.
can_show_interstitial(app_state, time) ==
    LET st == ResetDailyCount(app_state, time)
    IN  IF ~app_state.ads_enabled \/ app_state.ads_removed_purchased THEN FALSE
        ELSE IF st.interstitial_count_today >= MAX_INTERSTITIALS_PER_DAY THEN FALSE
        ELSE IF st.last_interstitial_time # None
                /\ time - st.last_interstitial_time[1] < MIN_INTERSTITIAL_INTERVAL_SECONDS
        THEN FALSE
        ELSE TRUE

\* AppState.record_interstitial_shown
record_interstitial_shown(app_state, time) ==
    [app_state EXCEPT !.last_interstitial_time = Some(time),
                      !.interstitial_count_today = @ + 1]

\* on_closed of show_interstitial run on the manager a.
OnClosed(a) ==
    [a EXCEPT !.app_state = record_interstitial_shown(a.app_state, a.time),
              !.recorded = Append(a.recorded, a.time)]

\* AdsManager.show_interstitial(callback), the bridge having an interstitial
\* ready or not: AdMobBridge.show_interstitial shows it and starts to poll,
\* or calls on_closed at once.
ShowInterstitial(ready) ==
    /\ ads.requests < MaxRequests
    /\ LET st == ResetDailyCount(ads.app_state, ads.time)
           a == [ads EXCEPT !.app_state = st, !.requests = @ + 1]
       IN  IF ~can_show_interstitial(ads.app_state, ads.time) THEN ads' = a
           ELSE IF ~ads.android THEN ads' = a
           ELSE IF ready
           THEN ads' = [a EXCEPT !._interstitial_callback = TRUE,
                                 !.polls = @ + 1,
                                 !.shown = Append(@, [time |-> ads.time,
                                     ads_enabled |-> st.ads_enabled,
                                     ads_removed_purchased |-> st.ads_removed_purchased])]
           ELSE ads' = OnClosed([a EXCEPT !._interstitial_callback = TRUE])
    /\ UNCHANGED <<now, ticks, use_opencv, _is_processing, _last_preview_time,
                   calls, written, clock_events, frames, detecting, files>>
    /\ UNCHANGED <<cleanups, returns, contour, ordered, detection, image_size, rotated>>
    /\ UNCHANGED <<sized, deskewed, filtered, selection, downscaled, pillow, session>>

\* The end of a chain of _poll_interstitial_closed: the ad was closed, or 60
\* attempts were made; the callback, if one is set, is called and cleared.
PollInterstitialClosed ==
    /\ ads.polls > 0
    /\ LET a == [ads EXCEPT !.polls = @ - 1, !._interstitial_callback = FALSE]
       IN  ads' = IF ads._interstitial_callback THEN OnClosed(a) ELSE a
    /\ UNCHANGED <<now, ticks, use_opencv, _is_processing, _last_preview_time,
                   calls, written, clock_events, frames, detecting, files>>
    /\ UNCHANGED <<cleanups, returns, contour, ordered, detection, image_size, rotated>>
    /\ UNCHANGED <<sized, deskewed, filtered, selection, downscaled, pillow, session>>

\* on_purchase_result(True, ...) of purchase_remove_ads.
PurchaseResult ==
    /\ ~ads.app_state.ads_removed_purchased
    /\ ads.android
    /\ ads' = [ads EXCEPT !.app_state.ads_removed_purchased = TRUE,
                          !.app_state.ads_enabled = FALSE]
    /\ UNCHANGED <<now, ticks, use_opencv, _is_processing, _last_preview_time,
                   calls, written, clock_events, frames, detecting, files>>
    /\ UNCHANGED <<cleanups, returns, contour, ordered, detection, image_size, rotated>>
    /\ UNCHANGED <<sized, deskewed, filtered, selection, downscaled, pillow, session>>

\* Time passes: a second, or the minimum interval.
AdsTick ==
    /\ ads.ticks < MaxAdsTicks
    /\ \E d \in {1, MIN_INTERSTITIAL_INTERVAL_SECONDS} :
          ads' = [ads EXCEPT !.time = @ + d, !.ticks = @ + 1]
    /\ UNCHANGED <<now, ticks, use_opencv, _is_processing, _last_preview_time,
                   calls, written, clock_events, frames, detecting, files>>
    /\ UNCHANGED <<cleanups, returns, contour, ordered, detection, image_size, rotated>>
    /\ UNCHANGED <<sized, deskewed, filtered, selection, downscaled, pillow, session>>

(* ------------------------------- clock -------------------------------- *)

Tick ==
    /\ ticks < MaxTicks
    /\ \E d \in TickSteps : now' = now + d
    /\ ticks' = ticks + 1
    /\ UNCHANGED <<files, aux>>
    /\ UNCHANGED <<use_opencv, _is_processing, _last_preview_time, calls, written,
                   clock_events, frames, detecting>>

(* --------------------------- specifications --------------------------- *)

\* ScannerPipeline(cache_path); the capture is in the cache directory.
PipelineInit ==
    /\ now = StartTime
    /\ ticks = 0
    /\ use_opencv \in BOOLEAN
    /\ _is_processing = FALSE
    /\ _last_preview_time = 0
    /\ calls = <<>>
    /\ written = {}
    /\ clock_events = <<>>
    /\ frames = <<>>
    /\ detecting = {}
    /\ files = {Capture}

\* No operation checked one at a time has been called.
ExtInit ==
    /\ sized = <<>>
    /\ deskewed = <<>>
    /\ filtered = <<>>
    /\ selection = <<>>
    /\ downscaled = <<>>
    /\ pillow = <<>>
    /\ session = ScanSession
    /\ ads = AdsManager(AppState, TRUE)

Init ==
    /\ PipelineInit
    /\ ExtInit
    /\ cleanups = <<>>
    /\ returns = {}
    /\ contour = <<>>
    /\ ordered = <<>>
    /\ detection = None
    /\ image_size = <<0, 0>>
    /\ rotated = <<>>

\* The inputs of the calls made in the concurrent specification.
CallInputs ==
    {Input(None, "original", 0, TRUE), Input(None, "black_white", 0, FALSE)}

\* Every input of one process_capture call.
AllInputs ==
    {Input(q, f, r, FALSE) : q \in QuadInputs, f \in FilterType, r \in Rotations}

Next ==
    \/ \E t \in Threads, inp \in CallInputs : ProcessCaptureAsync(t, inp)
    \/ \E t \in Threads, inp \in CallInputs :
          ProcessCapture(t, [inp EXCEPT !.completion_callback = FALSE])
    \/ \E k \in 1..MaxCalls : AsyncStart(k)
    \/ \E k \in 1..MaxCalls : ProcessCaptureStep(k)
    \/ \E k \in 1..MaxCalls : WorkerClear(k)
    \/ \E k \in 1..MaxCalls : WorkerSchedule(k)
    \/ Tick

Spec == Init /\ [][Next]_vars

\* The preview calls of the camera thread, their detect() threads and one
\* process_capture_async call beside them.
PreviewNext ==
    \/ DetectDocumentPreview
    \/ \E f \in 1..MaxFrames : DetectThread(f)
    \/ Len(calls) = 0 /\ ProcessCaptureAsync("ui", Input(None, "original", 0, TRUE))
    \/ \E k \in 1..MaxCalls : AsyncStart(k)
    \/ \E k \in 1..MaxCalls : ProcessCaptureStep(k)
    \/ \E k \in 1..MaxCalls : WorkerClear(k)
    \/ \E k \in 1..MaxCalls : WorkerSchedule(k)
    \/ Tick

PreviewSpec == Init /\ [][PreviewNext]_vars

\* One synchronous process_capture call over every input.
StageNext ==
    \/ \E inp \in AllInputs : Len(calls) = 0 /\ ProcessCapture("ui", inp)
    \/ \E k \in 1..MaxCalls : ProcessCaptureStep(k)
    \/ Tick

StageSpec == Init /\ [][StageNext]_vars

\* Only process_capture_async calls and their workers, every thread that is
\* inside the pipeline being scheduled again.
AsyncNext ==
    \/ \E t \in Threads, cb \in BOOLEAN :
          ProcessCaptureAsync(t, Input(None, "original", 0, cb))
    \/ \E k \in 1..MaxCalls : AsyncStart(k)
    \/ \E k \in 1..MaxCalls : ProcessCaptureStep(k)
    \/ \E k \in 1..MaxCalls : WorkerClear(k)
    \/ \E k \in 1..MaxCalls : WorkerSchedule(k)

\* A step of a thread that is inside the pipeline.
PipelineStep ==
    \E k \in 1..MaxCalls :
        AsyncStart(k) \/ ProcessCaptureStep(k) \/ WorkerClear(k) \/ WorkerSchedule(k)

\* The scheduler does not stop every thread that is inside the pipeline for ever.
FairSpec == Init /\ [][AsyncNext]_vars /\ WF_vars(PipelineStep)

\* The inputs of the calls made beside cleanup_temp_files.
FileInputs ==
    {Input(None, "original", 0, FALSE), Input(Some(Quad4), "original", 0, FALSE)}

\* The keep_paths a caller passes: none, an empty list, one file of the
\* directory, the outputs of the calls that returned.
KeepPaths ==
    {None, Some({})} \cup {Some({f}) : f \in files}
        \cup {Some({calls[k].output_path[1] : k \in {j \in CallIds : calls[j].success}})}

\* The UI thread calling process_capture or process_capture_async once, and
\* create_thumbnail and cleanup_temp_files before, beside and after it.
FileNext ==
    \/ \E inp \in FileInputs : Len(calls) = 0 /\ ProcessCapture("ui", inp)
    \/ Len(calls) = 0 /\ ProcessCaptureAsync("ui", Input(None, "original", 0, FALSE))
    \/ \E k \in 1..MaxCalls : AsyncStart(k)
    \/ \E k \in 1..MaxCalls : ProcessCaptureStep(k)
    \/ \E k \in 1..MaxCalls : WorkerClear(k)
    \/ \E k \in 1..MaxCalls : WorkerSchedule(k)
    \/ \E image_path \in files : CreateThumbnail(image_path)
    \/ \E keep_paths \in KeepPaths : CleanupTempFiles(keep_paths)

FileSpec == Init /\ [][FileNext]_vars

\* Every list of four points of the frame as the contour of the image.
QuadInit ==
    /\ PipelineInit
    /\ ExtInit
    /\ cleanups = <<>>
    /\ returns = {}
    /\ contour \in [1..4 -> Points]
    /\ ordered = <<contour>>
    /\ detection = None
    /\ image_size = <<0, 0>>
    /\ rotated = <<>>

QuadNext ==
    \/ Detect
    \/ DetectFromBytes
    \/ OrderPoints

QuadSpec == QuadInit /\ [][QuadNext]_vars

\* A frame that shows a page.
EntryInit ==
    /\ PipelineInit
    /\ ExtInit
    /\ cleanups = <<>>
    /\ returns = {}
    /\ contour = <<<<0, 0>>, <<GridMax, 0>>, <<GridMax, GridMax>>, <<0, GridMax>>>>
    /\ ordered = <<contour>>
    /\ detection = None
    /\ image_size = <<0, 0>>
    /\ rotated = <<>>

\* Every entry point of the pipeline called by the UI thread, the stages and
\* the detections failing as they may.
EntryNext ==
    \/ Len(calls) = 0 /\ ProcessCapture("ui", Input(Some(Quad4), "original", 0, FALSE))
    \/ Len(calls) = 0 /\ ProcessCaptureAsync("ui", Input(None, "original", 0, TRUE))
    \/ \E k \in 1..MaxCalls : AsyncStart(k)
    \/ \E k \in 1..MaxCalls : ProcessCaptureStep(k)
    \/ \E k \in 1..MaxCalls : WorkerClear(k)
    \/ \E k \in 1..MaxCalls : WorkerSchedule(k)
    \/ DetectDocumentPreview
    \/ \E f \in 1..MaxFrames : DetectThread(f)
    \/ CleanupTempFiles(None)
    \/ DetectDocument
    \/ IsLowLight

EntrySpec == EntryInit /\ [][EntryNext]_vars

\* An image of every size up to MaxDim x MaxDim.
RotateInit ==
    /\ PipelineInit
    /\ ExtInit
    /\ cleanups = <<>>
    /\ returns = {}
    /\ contour = <<>>
    /\ ordered = <<>>
    /\ detection = None
    /\ image_size \in (1..MaxDim) \X (1..MaxDim)
    /\ rotated = <<>>

RotateNext == RotateImage

RotateSpec == RotateInit /\ [][RotateNext]_vars

\* Every quad with corners on SizeCoords given to _calculate_output_size.
SizeNext == CalculateOutputSize

SizeSpec == Init /\ [][SizeNext]_vars

\* deskew called once on an image with every list of up to MaxLines lines.
DeskewNext == Deskew

DeskewSpec == Init /\ [][DeskewNext]_vars

\* One process_capture call with every input, and one apply_filter call of
\* every filter type before, between or after its stages.
FilterNext ==
    \/ \E inp \in AllInputs : Len(calls) = 0 /\ ProcessCapture("ui", inp)
    \/ \E k \in 1..MaxCalls : ProcessCaptureStep(k)
    \/ ApplyFilter

FilterSpec == Init /\ [][FilterNext]_vars

\* The contour loop on every list of up to MaxContours contours.
SelectNext == SelectQuad

SelectSpec == Init /\ [][SelectNext]_vars

\* One frame of every size of FrameDims processed by the build's detector.
FrameNext == ProcessFrame

FrameSpec == Init /\ [][FrameNext]_vars

\* The Pillow detector on every edge image of EdgeImages.
PillowNext == ProcessPillow

PillowSpec == Init /\ [][PillowNext]_vars

\* Every sequence of up to MaxSessionCalls calls on one ScanSession.
SessionNext ==
    \/ AddPage
    \/ \E index \in SessionIndices : RemovePage(index)
    \/ \E from_index, to_index \in SessionIndices : ReorderPages(from_index, to_index)

SessionSpec == Init /\ [][SessionNext]_vars

\* An AdsManager initialized from a saved state, on Android or elsewhere.
AdsInit ==
    /\ PipelineInit
    /\ cleanups = <<>>
    /\ returns = {}
    /\ contour = <<>>
    /\ ordered = <<>>
    /\ detection = None
    /\ image_size = <<0, 0>>
    /\ rotated = <<>>
    /\ sized = <<>>
    /\ deskewed = <<>>
    /\ filtered = <<>>
    /\ selection = <<>>
    /\ downscaled = <<>>
    /\ pillow = <<>>
    /\ session = ScanSession
    /\ \E app_state \in SavedStates, android \in BOOLEAN :
          ads = AdsManager(app_state, android)

\* Requests for an interstitial, the ads closing, a purchase, time passing.
AdsNext ==
    \/ \E ready \in BOOLEAN : ShowInterstitial(ready)
    \/ PollInterstitialClosed
    \/ PurchaseResult
    \/ AdsTick

AdsSpec == AdsInit /\ [][AdsNext]_vars

(* ------------------------------- claims ------------------------------- *)

AsyncCalls == {k \in CallIds : calls[k].kind = "async"}

\* Workers of process_capture_async inside process_capture.
WorkersProcessing == {k \in AsyncCalls : calls[k].pc \in Stages}

\* Worker threads that were started and have not ended.
WorkersAlive == {k \in AsyncCalls : calls[k].pc \in Stages \cup {"clear", "schedule"}}

\* Accepted process_capture_async calls that have not given the flag back.
InFlight == {k \in AsyncCalls : calls[k].pc \in Stages \cup {"accepted", "clear"}}

CompletionsOf(k) ==
    {i \in 1..Len(clock_events) :
        clock_events[i].kind = "completion" /\ clock_events[i].id = k}

\* C1: on one pipeline no two workers started by process_capture_async run
\* process_capture at the same time, whatever threads the calls come from.
C1_SingleInFlight == Cardinality(WorkersProcessing) <= 1

\* C2: a process_capture_async call made while another is in flight is
\* rejected with "Already processing", starts no worker and leaves the busy
\* flag and the in-flight call as they were; no call's inputs ever change.
C2_BusyCallRejected ==
    [][(Len(calls') = Len(calls) + 1 /\ calls'[Len(calls')].kind = "async"
            /\ InFlight # {})
        => /\ calls'[Len(calls')].pc = "rejected"
           /\ calls'[Len(calls')].error_message = "Already processing"
           /\ ~calls'[Len(calls')].success
           /\ _is_processing' = _is_processing
           /\ \A k \in CallIds : calls'[k] = calls[k]]_vars

\* The busy flag is set only while a started worker has yet to clear it; a
\* completion callback is scheduled at most once per call, for an accepted
\* call only after its worker cleared the flag.
FlagHeldOnlyByWorker ==
    /\ _is_processing => \E k \in AsyncCalls : calls[k].pc \in Stages \cup {"clear"}
    /\ \A k \in AsyncCalls :
          /\ Cardinality(CompletionsOf(k)) <= 1
          /\ (calls[k].pc # "rejected" /\ CompletionsOf(k) # {})
                => calls[k].cleared /\ calls[k].pc = "done"
          /\ calls[k].pc = "done"
                => /\ calls[k].cleared
                   /\ Cardinality(CompletionsOf(k)) =
                         IF calls[k].inp.completion_callback THEN 1 ELSE 0

\* C3: every accepted process_capture_async call runs to its end, whether its
\* processing succeeds or raises: its worker clears the busy flag and only
\* then schedules the completion callback, exactly once; the flag is never
\* held without a live worker, so a call made when no accepted call is in
\* flight (such as one made from the completion callback) is accepted.
C3_AcceptedCallCompletes ==
    /\ []FlagHeldOnlyByWorker
    /\ [][(Len(calls') = Len(calls) + 1 /\ calls'[Len(calls')].kind = "async"
              /\ InFlight = {})
          => calls'[Len(calls')].pc = "accepted"]_vars
    /\ \A k \in 1..MaxCalls :
          (k \in CallIds /\ calls[k].pc = "accepted")
              ~> (k \in CallIds /\ calls[k].pc = "done")

\* A call was accepted by the thread whose earlier call has completed and
\* had its callback scheduled.
C3_Witness ==
    \E j, k \in AsyncCalls :
        /\ j < k
        /\ calls[j].thread = calls[k].thread
        /\ calls[j].pc = "done"
        /\ calls[j].log # <<>> /\ calls[j].log[1].outcome = "raise"
        /\ CompletionsOf(j) # {}
        /\ calls[k].pc = "accepted"

\* C4: at most one process_capture execution, synchronous or in a worker, is
\* writing into the cache directory at any time.
C4_OneWriter == Cardinality({k \in CallIds : calls[k].pc \in Stages}) <= 1

\* C5: at most one background thread started by the pipeline, for preview
\* detection or for process_capture_async, is running at any time.
C5_OneWorkerSlot == Cardinality(detecting) + Cardinality(WorkersAlive) <= 1

\* C6: no two files written by process_capture have the same path.
C6_UniqueFileNames == \A a, b \in written : a[1] = b[1] => a = b

\* C7: two preview calls that return True are at least 200 ms apart, a call
\* inside the window of an accepted one returns False, and detection threads
\* were started for the accepted calls only.
C7_PreviewThrottle ==
    /\ \A i, j \in 1..Len(frames) :
          (i < j /\ frames[i].ret /\ frames[j].ret) => frames[j].t - frames[i].t >= 200
    /\ \A i, j \in 1..Len(frames) :
          (i < j /\ frames[i].ret /\ frames[j].t - frames[i].t < 200) => ~frames[j].ret
    /\ detecting \cup {clock_events[i].id : i \in {n \in 1..Len(clock_events) :
                                                  clock_events[n].kind = "preview"}}
          = {j \in 1..Len(frames) : frames[j].ret}

\* An accepted call, a call dropped inside its window, and the next accepted one.
C7_Witness ==
    /\ Len(frames) = 3
    /\ frames[1].ret /\ ~frames[2].ret /\ frames[3].ret
    /\ frames[2].t - frames[1].t = 199
    /\ frames[3].t - frames[1].t = 200

Returned(k) == calls[k].pc \notin Stages \cup {"accepted", "rejected"}

Ran(k) == {calls[k].log[i].stage : i \in 1..Len(calls[k].log)}

\* C8: in process_capture rectification runs iff a quad is supplied, rotation
\* iff the rotation is not 0, deskew iff rectification ran, the filter iff it
\* is not Original, and sanitize always; no stage runs twice.
C8_StageConditions ==
    \A k \in CallIds :
        Returned(k) =>
            LET inp == calls[k].inp
                quad == inp.quad_points
            IN  /\ "warp" \in Ran(k) <=> (quad # <<>> /\ quad[1] # <<>>)
                /\ "rotate" \in Ran(k) <=> inp.rotation # 0
                /\ "deskew" \in Ran(k) <=> "warp" \in Ran(k)
                /\ "filter" \in Ran(k) <=> inp.filter_type # "original"
                /\ "sanitize" \in Ran(k)
                /\ Len(calls[k].log) = Cardinality(Ran(k))

C8_Witness ==
    \E k \in CallIds :
        /\ Returned(k)
        /\ calls[k].inp.rotation = 0
        /\ Ran(k) = {"warp", "deskew", "filter", "sanitize"}

Rank(s) ==
    CASE s = "warp" -> 1 [] s = "rotate" -> 2 [] s = "deskew" -> 3
      [] s = "filter" -> 4 [] s = "sanitize" -> 5

\* C9: the stages of one invocation run in the order rectify, rotate, deskew,
\* filter, sanitize, each reads the path the stage before it returned (the
\* first reads image_path), and output_path is what sanitize returned.
C9_StageOrderAndChaining ==
    \A k \in CallIds :
        LET log == calls[k].log
        IN  /\ \A i \in 1..Len(log) :
                  /\ i > 1 => Rank(log[i - 1].stage) < Rank(log[i].stage)
                  /\ log[i].input = IF i = 1 THEN calls[k].inp.image_path
                                    ELSE log[i - 1].returned
            /\ Returned(k) =>
                  /\ log # <<>>
                  /\ log[Len(log)].stage = "sanitize"
                  /\ calls[k].output_path = <<log[Len(log)].returned>>

\* All five stages ran, each wrote its file, and the call returned.
C9_Witness ==
    \E k \in CallIds :
        /\ Returned(k)
        /\ Len(calls[k].log) = 5
        /\ \A i \in 1..5 : calls[k].log[i].outcome = "ok"

\* C10: a failed rectify, rotate, deskew or filter stage returns the path it
\* was given, and the invocation still returns success.
C10_StageFailurePassThrough ==
    \A k \in CallIds :
        /\ \A i \in 1..Len(calls[k].log) :
              LET e == calls[k].log[i]
              IN  (e.stage # "sanitize" /\ e.outcome \in {"raise", "lost"})
                      => e.returned = e.input
        /\ Returned(k) => calls[k].success

SanitizeEntry(k) == calls[k].log[Len(calls[k].log)]

\* C11: a failure of the sanitize step, which writes the final page file, is
\* fatal: process_capture returns success = False with an error message; the
\* failure of no other stage gives success = False.
C11_SanitizeFailureFatal ==
    \A k \in CallIds :
        Returned(k) =>
            /\ SanitizeEntry(k).stage = "sanitize"
            /\ SanitizeEntry(k).outcome = "raise"
                  => ~calls[k].success /\ calls[k].error_message # ""
            /\ SanitizeEntry(k).outcome = "ok" => calls[k].success

\* C12: no exception leaves process_capture, process_capture_async,
\* detect_document, detect_document_preview, is_low_light or
\* cleanup_temp_files, whatever fails inside: each call returns, and what the
\* caller gets is a ProcessingResult, a QuadResult, a boolean or nothing.
C12_NoExceptionEscapes ==
    /\ \A r \in returns :
          /\ ~r.result.raised
          /\ r.entry = "detect_document" =>
                /\ r.result.value.detected \in BOOLEAN
                /\ ~r.result.value.detected => r.result.value.points = <<>>
          /\ r.entry = "is_low_light" => r.result.value \in BOOLEAN
          /\ r.entry = "cleanup_temp_files" => r.result.value = <<>>
    /\ \A k \in CallIds :
          /\ calls[k].pc \in Stages \cup {"accepted", "rejected", "clear", "schedule", "done"}
          /\ calls[k].success \in BOOLEAN
          /\ calls[k].success => calls[k].output_path # <<>>
          /\ (\E i \in 1..Len(calls[k].log) : calls[k].log[i].outcome = "raise")
                => calls[k].error_message = ""
    /\ \A i \in 1..Len(frames) : frames[i].ret \in BOOLEAN

\* The detection raised inside, a stage of a finished call raised, a cleanup
\* could not list the directory, and every call returned.
C12_Witness ==
    /\ \E r \in returns : r.entry = "detect_document" /\ r.outcome = "error"
    /\ \E r \in returns : r.entry = "is_low_light" /\ r.outcome = "raise"
    /\ \E i \in 1..Len(cleanups) : cleanups[i].listed = {}
    /\ \E k \in CallIds :
          /\ Returned(k)
          /\ \E i \in 1..Len(calls[k].log) : calls[k].log[i].outcome = "raise"
    /\ \E i \in 1..Len(frames) : frames[i].ret

\* C13: cleanup_temp_files(keep_paths) removes no file listed in keep_paths,
\* whatever the file's name; such a file that was in the directory is still
\* there when the call returns.
C13_KeepPathsNeverDeleted ==
    [][\A p \in files :
          (Len(cleanups') = Len(cleanups) + 1
              /\ cleanups'[Len(cleanups')].keep_paths # <<>>
              /\ p \in cleanups'[Len(cleanups')].keep_paths[1])
          => p \in files' /\ p \notin cleanups'[Len(cleanups')].removed]_vars

\* A cleanup removed an intermediate file and left the listed one, which has
\* an intermediate prefix too, in place.
C13_Witness ==
    \E i \in 1..Len(cleanups) :
        /\ cleanups[i].keep_paths # <<>>
        /\ cleanups[i].removed # {}
        /\ \E p \in cleanups[i].keep_paths[1] :
              p \in cleanups[i].listed /\ p.prefix \in TempPrefixes /\ p \in files

\* C14: cleanup_temp_files removes only files whose name starts with warped_,
\* rotated_, deskewed_, filtered_ or sanitized_; capture_, page_ and thumb_
\* files stay.
C14_OnlyTempPrefixedRemoved ==
    \A i \in 1..Len(cleanups) :
        \A f \in cleanups[i].removed : f.prefix \in TempPrefixes

\* C15: cleanup_temp_files, with any keep_paths or none, leaves the output
\* file of every process_capture call that returned success in place.
C15_OutputSurvivesCleanup ==
    [][\A k \in CallIds :
          (Returned(k) /\ calls[k].success /\ calls[k].output_path[1] \in files)
              => calls[k].output_path[1] \in files']_vars

\* The files removed by the cleanup_temp_files calls made so far.
Removed == UNION {cleanups[i].removed : i \in 1..Len(cleanups)}

ValidQuad(points, size) ==
    /\ Len(points) = 4
    /\ \A i \in 1..4 :
          /\ 0 <= points[i][1] /\ points[i][1] < size[1]
          /\ 0 <= points[i][2] /\ points[i][2] < size[2]
    /\ \A i, j, k \in 1..4 :
          (i < j /\ j < k) =>
              (points[j][1] - points[i][1]) * (points[k][2] - points[i][2])
                  # (points[j][2] - points[i][2]) * (points[k][1] - points[i][1])
    /\ \A i \in 1..4 : Cross(points, i) > 0
    /\ \A i \in 1..4 : points[1][1] + points[1][2] <= points[i][1] + points[i][2]

\* C17: every result with detected = true carries a valid quad, whatever
\* contour the detector selected.
C17_DetectedQuadValid ==
    (detection # None /\ detection[1].result.value.detected)
        => /\ detection[1].result.value.points # None
           /\ ValidQuad(detection[1].result.value.points[1],
                        detection[1].result.value.frame_size)

\* C18: _order_points applied to its own result changes nothing, for every
\* list of four points.
C18_OrderPointsIdempotent == Len(ordered) >= 3 => ordered[3] = ordered[2]

C20_RotationModulo360 ==
    /\ \A i \in 1..Len(rotated) :
          LET e == rotated[i]
          IN  /\ e.degrees \in {0, 360} =>
                    /\ e.returned = e.input
                    /\ ~e.wrote
                    /\ e.output_size = e.input_size
                    /\ e.listed = IF i = 1 THEN {Capture} ELSE rotated[i - 1].listed
              /\ (e.degrees \in {90, 270, 450, 0 - 90} /\ e.outcome = "ok") =>
                    /\ e.returned # e.input
                    /\ e.returned \in e.listed
                    /\ e.output_size = <<e.input_size[2], e.input_size[1]>>
    /\ \A i \in 1..Len(rotated) :
          (/\ i > 1
           /\ rotated[i - 1].degrees = 90 /\ rotated[i - 1].outcome = "ok"
           /\ rotated[i].degrees = 270 /\ rotated[i].outcome = "ok")
              => rotated[i].output_size = rotated[i - 1].input_size

\* An image that is not square, turned by 90 and then by 270.
C20_Witness ==
    /\ Len(rotated) = 2
    /\ rotated[1].degrees = 90 /\ rotated[1].outcome = "ok"
    /\ rotated[2].degrees = 270 /\ rotated[2].outcome = "ok"
    /\ rotated[1].input_size[1] # rotated[1].input_size[2]
    /\ rotated[1].output_size # rotated[1].input_size
    /\ image_size = rotated[1].input_size

\* The longer of two opposite sides of the quad, squared: <<width, height>>.
SidesSquared(q) ==
    LET sq(a, b) == (b[1] - a[1]) * (b[1] - a[1]) + (b[2] - a[2]) * (b[2] - a[2])
    IN  <<IntMax(sq(q[1], q[2]), sq(q[4], q[3])),
          IntMax(sq(q[1], q[4]), sq(q[2], q[3]))>>

\* n = max(round(sqrt(m)), 100): the square root of an integer is never
\* half-way between two integers.
IsRoundedSide(n, m) ==
    /\ n >= 100
    /\ n > 100 => (2 * n - 1) * (2 * n - 1) < 4 * m
    /\ 4 * m < (2 * n + 1) * (2 * n + 1)

\* n = max(floor(sqrt(m)), 100)
IsTruncatedSide(n, m) ==
    /\ n >= 100
    /\ n > 100 => n * n <= m
    /\ m < (n + 1) * (n + 1)

\* C21 as stated: the output width is round(max(|TL-TR|, |BL-BR|)) and the
\* height round(max(|TL-BL|, |TR-BR|)), each at least 100; the quad
\* (0,0),(200,0),(200,300),(0,300) gives exactly 200 x 300.
C21_OutputSizeRounded ==
    \A i \in 1..Len(sized) :
       /\ IsRoundedSide(sized[i].size[1], SidesSquared(sized[i].quad_points)[1])
       /\ IsRoundedSide(sized[i].size[2], SidesSquared(sized[i].quad_points)[2])
       /\ sized[i].quad_points = Quad4 => sized[i].size = <<200, 300>>

\* C21 amended: the output width is max(|TL-TR|, |BL-BR|) truncated to an
\* integer and the height max(|TL-BL|, |TR-BR|) truncated, each at least 100;
\* the quad (0,0),(200,0),(200,300),(0,300) gives exactly 200 x 300.
C21_OutputSizeTruncated ==
    \A i \in 1..Len(sized) :
       /\ IsTruncatedSide(sized[i].size[1], SidesSquared(sized[i].quad_points)[1])
       /\ IsTruncatedSide(sized[i].size[2], SidesSquared(sized[i].quad_points)[2])
       /\ sized[i].quad_points = Quad4 => sized[i].size = <<200, 300>>

\* A quad whose top side is 200.56 long and whose left side is 15 long.
C21_Witness ==
    /\ sized # <<>>
    /\ sized[1].quad_points = <<<<0, 0>>, <<200, 15>>, <<200, 15>>, <<0, 15>>>>
    /\ sized[1].size = <<200, 100>>


\* The median line angle of a deskew call that had a usable line, else None.
MedianOf(d) ==
    IF d.scene.lines = None THEN None
    ELSE IF Len(SmallAngles(d.scene.lines[1])) = 0 THEN None
    ELSE Some(Median(SmallAngles(d.scene.lines[1])))

\* The call could read its image, found a usable line and wrote its output.
NothingFailed(d) == d.opencv /\ d.scene.readable /\ d.scene.write = "ok"

\* C22: deskew corrects exactly when 0.5 < |median angle| < 15; for every
\* other angle (0.5 and 15 included), with no usable line, on any failure and
\* without OpenCV it returns its input path and writes no file.
C22_DeskewOnlyInOpenRange ==
    \A i \in 1..Len(deskewed) :
       LET d == deskewed[i]
           m == MedianOf(d)
           in_range == m # None /\ 50 < Abs(m[1]) /\ Abs(m[1]) < 1500
       IN  IF NothingFailed(d) /\ in_range
           THEN d.returned = d.output_path /\ d.wrote /\ d.output_path \in d.listed
           ELSE d.returned = d.image_path /\ ~d.wrote /\ d.listed = {Capture}


\* C23: apply_filter(path, ORIGINAL) returns the path it was given and
\* creates no file, and process_capture with the Original filter creates no
\* filtered_ file.
C23_OriginalFilterIsIdentity ==
    /\ \A i \in 1..Len(filtered) :
          filtered[i].filter_type = "original" =>
             /\ filtered[i].returned = filtered[i].image_path
             /\ ~filtered[i].wrote
             /\ filtered[i].listed = filtered[i].listed_before
    /\ \A k \in CallIds :
          calls[k].inp.filter_type = "original" =>
             /\ \A w \in written : w[2] = k => w[1].prefix # "filtered"
             /\ filtered = <<>> => \A f \in files : f.prefix # "filtered"

\* apply_filter was called with Original, and a process_capture call with
\* Original whose other stages all ran has returned.
C23_Witness ==
    /\ filtered # <<>>
    /\ filtered[1].filter_type = "original"
    /\ \E k \in CallIds :
          /\ Returned(k)
          /\ calls[k].inp.filter_type = "original"
          /\ Ran(k) = {"warp", "rotate", "deskew", "sanitize"}


\* The contours that pass every filter of the claim.
Survivors(contours) ==
    {i \in 1..Len(contours) :
        /\ 10 <= contours[i].area /\ contours[i].area <= 95
        /\ contours[i].vertices = 4
        /\ contours[i].convex}

\* C24: among the contours with an area within [10%, 95%] of the frame whose
\* approximation has four vertices and is convex, the detector selects one of
\* maximum area, the first encountered among equals; with no such contour the
\* result is detected=false.
C24_BestQuadSelection ==
    \A n \in 1..Len(selection) :
       LET sel == selection[n]
           S == Survivors(sel.contours)
       IN  IF S = {} THEN ~sel.detected /\ sel.best_quad = None
           ELSE /\ sel.detected
                /\ sel.best_quad # None
                /\ sel.best_quad[1] \in S
                /\ \A j \in S : sel.contours[j].area <= sel.contours[sel.best_quad[1]].area
                /\ \A j \in S : sel.contours[j].area = sel.contours[sel.best_quad[1]].area
                                   => sel.best_quad[1] <= j

\* Two surviving contours of equal area: the first is selected.
C24_Witness ==
    /\ selection # <<>>
    /\ Survivors(selection[1].contours) = {1, 2}
    /\ selection[1].contours[1].area = selection[1].contours[2].area
    /\ selection[1].best_quad = Some(1)


\* The corner returned is the corner found, taken back to the coordinates of
\* the original frame: unchanged in a frame that was not downscaled, else
\* multiplied by original width / processed width and truncated; it lies in
\* the frame.
RescaledBack(d) ==
    /\ d.processed = d.frame_size => d.returned = d.found
    /\ \A c \in 1..2 :
          /\ d.returned[c] * d.processed[1] <= d.found[c] * d.frame_size[1]
          /\ d.found[c] * d.frame_size[1] < (d.returned[c] + 1) * d.processed[1]
          /\ 0 <= d.returned[c] /\ d.returned[c] < d.frame_size[c]

\* C25 as stated: for every frame size the longer side of the image that is
\* processed is at most 960 px, landscape and portrait alike, and the quad
\* coordinates returned are rescaled back to the original frame.
C25_LongerSideBounded ==
    \A i \in 1..Len(downscaled) :
       /\ downscaled[i].processed[1] <= 960
       /\ downscaled[i].processed[2] <= 960
       /\ RescaledBack(downscaled[i])

\* C25 amended: for every frame size the width of the image that is processed
\* is at most 960 px, a frame no wider than 960 px is processed as it is, and
\* the quad coordinates returned are rescaled back to the original frame.
C25_WidthBounded ==
    \A i \in 1..Len(downscaled) :
       /\ downscaled[i].processed[1] <= 960
       /\ downscaled[i].frame_size[1] <= 960
             => downscaled[i].processed = downscaled[i].frame_size
       /\ RescaledBack(downscaled[i])

\* A portrait frame of 1080 x 1920 is processed at 960 x 1707 and its
\* bottom-right corner is returned in the original frame.
C25_Witness ==
    /\ downscaled # <<>>
    /\ downscaled[1].frame_size = <<1080, 1920>>
    /\ downscaled[1].processed = <<960, 1707>>
    /\ downscaled[1].found = <<959, 1706>>
    /\ downscaled[1].returned = <<1078, 1919>>


\* The bounding box of the edge pixels grown by the margin of 10 px and
\* clamped to the processed image: <<x1, y1, x2, y2>>.
MarginBox(p) ==
    <<IntMax(0, p.edges.min_x - 10), IntMax(0, p.edges.min_y - 10),
      IntMin(p.size[1] - 1, p.edges.max_x + 10), IntMin(p.size[2] - 1, p.edges.max_y + 10)>>

\* The corners of a box in the order TL, TR, BR, BL.
BoxCorners(b) == <<<<b[1], b[2]>>, <<b[3], b[2]>>, <<b[3], b[4]>>, <<b[1], b[4]>>>>

\* The corners in the coordinates of the original frame.
CornersInFrame(p, corners) ==
    [i \in 1..4 |->
        <<(corners[i][1] * p.frame_size[1]) \div p.size[1],
          (corners[i][2] * p.frame_size[1]) \div p.size[1]>>]

\* C26 as stated: the Pillow detector reports detected=true iff there are at
\* least 100 edge pixels and the bounding box of the edge pixels covers at
\* least 20% of the width and of the height; the quad is then that box's
\* corners with a margin of 10 px clamped to the frame, in the order TL, TR,
\* BR, BL, and the confidence is exactly 0.5.  (Necessity is stated with the
\* box counted in pixels, sufficiency with the difference of its coordinates,
\* so that either way of measuring the box is given its due.)
C26_PillowDetectsIffBoxCovers ==
    \A i \in 1..Len(pillow) :
       LET p == pillow[i]
           e == p.edges
       IN  /\ p.result.detected =>
                 /\ e.edge_count >= 100
                 /\ (e.max_x - e.min_x + 1) * 5 >= p.size[1]
                 /\ (e.max_y - e.min_y + 1) * 5 >= p.size[2]
           /\ (/\ e.edge_count >= 100
               /\ (e.max_x - e.min_x) * 5 >= p.size[1]
               /\ (e.max_y - e.min_y) * 5 >= p.size[2]) => p.result.detected
           /\ p.result.detected =>
                 /\ p.result.points = Some(CornersInFrame(p, BoxCorners(MarginBox(p))))
                 /\ p.result.confidence = Fraction(1, 2)

\* C26 amended: the Pillow detector reports detected=true iff there are at
\* least 100 edge pixels and the bounding box of the edge pixels, grown by the
\* margin of 10 px and clamped to the processed image, spans at least 20% of
\* its width and of its height; the quad is then the corners of that grown
\* box, rescaled to the original frame, in the order TL, TR, BR, BL, and the
\* confidence is exactly 0.5.
C26_PillowDetectsIffGrownBoxCovers ==
    \A i \in 1..Len(pillow) :
       LET p == pillow[i]
           b == MarginBox(p)
       IN  /\ p.result.detected <=>
                 /\ p.edges.edge_count >= 100
                 /\ (b[3] - b[1]) * 5 >= p.size[1]
                 /\ (b[4] - b[2]) * 5 >= p.size[2]
           /\ p.result.detected =>
                 /\ p.result.points = Some(CornersInFrame(p, BoxCorners(b)))
                 /\ p.result.confidence = Fraction(1, 2)

\* 100 edge pixels between columns 25 and 45 and rows 5 and 55 of a 200 x 200
\* frame: the box is a tenth of the width, and it is reported grown to 15..55.
C26_Witness ==
    /\ pillow # <<>>
    /\ pillow[1].frame_size = <<200, 200>>
    /\ pillow[1].edges = [edge_count |-> 100, min_x |-> 25, max_x |-> 45,
                          min_y |-> 5, max_y |-> 55]
    /\ pillow[1].result.detected
    /\ pillow[1].result.points = Some(<<<<15, 0>>, <<55, 0>>, <<55, 65>>, <<15, 65>>>>)


\* The positions of the preview callbacks in the order they were scheduled.
PreviewEvents == {n \in 1..Len(clock_events) : clock_events[n].kind = "preview"}

\* C27: preview results reach the callback in the order their frames were
\* accepted; an accepted frame has one callback and a dropped frame none, so
\* the last result delivered is that of the frame accepted last, however long
\* a detection takes.
C27_PreviewResultsInOrder ==
    /\ \A m, n \in PreviewEvents :
          m < n => clock_events[m].id < clock_events[n].id
    /\ \A n \in PreviewEvents : frames[clock_events[n].id].ret
    /\ \A f \in 1..Len(frames) :
          (frames[f].ret /\ f \notin detecting)
             => Cardinality({n \in PreviewEvents : clock_events[n].id = f}) = 1
    /\ (detecting = {} /\ PreviewEvents # {}) =>
          LET last == CHOOSE n \in PreviewEvents : \A m \in PreviewEvents : m <= n
          IN  \A f \in 1..Len(frames) : frames[f].ret => f <= clock_events[last].id


\* C28: when process_capture returns success=true its output_path names the
\* page_<timestamp>.jpg file in the cache directory, never the source image
\* nor an intermediate file.
C28_OutputIsFinalArtifact ==
    \A k \in CallIds :
        (Returned(k) /\ calls[k].success) =>
            /\ calls[k].output_path # None
            /\ calls[k].output_path[1].prefix = "page"
            /\ calls[k].output_path[1] # calls[k].inp.image_path
            /\ calls[k].output_path[1] \in files


\* C29: after any sequence of add_page, remove_page and reorder_pages calls
\* with arbitrary indices, pages[i].order = i at every position i and
\* current_page_index refers to an existing page whenever there is a page; a
\* call with an index out of range leaves the session unchanged.
C29_SessionOrderDense ==
    /\ \A i \in 1..Len(session.pages) : session.pages[i].order = i - 1
    /\ session.pages # <<>> =>
          /\ 0 <= session.current_page_index
          /\ session.current_page_index < Len(session.pages)
    /\ (session.last # None /\ ~session.last[1].in_range) =>
          /\ session.pages = session.last[1].pages
          /\ session.current_page_index = session.last[1].current_page_index


\* C30: under any sequence of show_interstitial requests and ad-closed
\* callbacks (a second request before the first ad is closed included) the
\* count recorded for a day never exceeds 20, any two recorded interstitials
\* are at least 30 s apart, and none is shown while ads are disabled or
\* remove-ads is purchased.
C30_InterstitialFrequencyCap ==
    /\ ads.app_state.interstitial_count_today <= 20
    /\ \A i, j \in 1..Len(ads.recorded) :
          i < j => ads.recorded[j] - ads.recorded[i] >= 30
    /\ \A i \in 1..Len(ads.shown) :
          ads.shown[i].ads_enabled /\ ~ads.shown[i].ads_removed_purchased


====
